---- MODULE Spec2Model ----
(***************************************************************************)
(* Client-side search and ranking engine of the contact manager:           *)
(* normalizer, tokenizer, index builder, memoized index cache, match       *)
(* classifier, tie-break resolver and the ranking pipeline.                *)
(*                                                                         *)
(* A JavaScript string is a sequence of one-character strings, so that     *)
(* every string operation of the source (toLowerCase, trim, replace,       *)
(* split, startsWith, includes, charCodeAt, localeCompare) is computed     *)
(* character by character.                                                 *)
(***************************************************************************)
EXTENDS Integers, Sequences, FiniteSets, TLC

(***************************************************************************)
(* Characters                                                              *)
(***************************************************************************)

\* Printable ASCII in code order: Ascii[i] has char code 31 + i (the grave
\* accent, code 96, is written "grave").
Ascii ==
  << " ", "!", "\"", "#", "$", "%", "&", "'", "(", ")", "*", "+", ",", "-", ".", "/",
     "0", "1", "2", "3", "4", "5", "6", "7", "8", "9", ":", ";", "<", "=", ">", "?",
     "@", "A", "B", "C", "D", "E", "F", "G", "H", "I", "J", "K", "L", "M", "N", "O",
     "P", "Q", "R", "S", "T", "U", "V", "W", "X", "Y", "Z", "[", "\\", "]", "^", "_",
     "grave", "a", "b", "c", "d", "e", "f", "g", "h", "i", "j", "k", "l", "m", "n", "o",
     "p", "q", "r", "s", "t", "u", "v", "w", "x", "y", "z", "{", "|", "}", "~" >>

Char == { Ascii[i] : i \in 1..Len(Ascii) }

\* String.prototype.charCodeAt for one character.
CharCode == [ c \in Char |-> 31 + (CHOOSE i \in 1..Len(Ascii) : Ascii[i] = c) ]

Digits == { "0", "1", "2", "3", "4", "5", "6", "7", "8", "9" }

UpperCase == { c \in Char : CharCode[c] >= 65 /\ CharCode[c] <= 90 }

LowerCase == { c \in Char : CharCode[c] >= 97 /\ CharCode[c] <= 122 }

\* String.prototype.toLowerCase for one character.
ToLowerChar == [ c \in Char |-> IF c \in UpperCase THEN Ascii[CharCode[c] + 32 - 31] ELSE c ]

\* The regular expression classes \s, \d and \w restricted to printable ASCII.
Spaces == { " " }

IsSpace(c) == c \in Spaces

IsDigit(c) == c \in Digits

IsWord(c) == c \in UpperCase \/ c \in LowerCase \/ c \in Digits \/ c = "_"

\* The value JavaScript's null / undefined is modelled by: no string equals it.
Null == << "null" >>

(***************************************************************************)
(* String primitives                                                       *)
(***************************************************************************)

\* str.startsWith(token)
StartsWith(str, token) ==
  /\ Len(token) <= Len(str)
  /\ \A i \in 1..Len(token) : str[i] = token[i]

\* str.includes(token)
Includes(str, token) ==
  \E k \in 0..(Len(str) - Len(token)) :
     \A i \in 1..Len(token) : str[k + i] = token[i]

\* str.toLowerCase()
ToLowerCase(str) == [ i \in 1..Len(str) |-> ToLowerChar[str[i]] ]

\* str.trim()
Trim(str) ==
  IF \A i \in 1..Len(str) : IsSpace(str[i]) THEN << >>
  ELSE LET first == CHOOSE i \in 1..Len(str) :
                       /\ ~IsSpace(str[i])
                       /\ \A j \in 1..(i - 1) : IsSpace(str[j])
           last  == CHOOSE i \in 1..Len(str) :
                       /\ ~IsSpace(str[i])
                       /\ \A j \in (i + 1)..Len(str) : IsSpace(str[j])
       IN  SubSeq(str, first, last)

\* str.replace(/\s+/g, ' '): every maximal run of whitespace becomes one space.
RECURSIVE CollapseSpaces(_)
CollapseSpaces(str) ==
  IF str = << >> THEN << >>
  ELSE IF IsSpace(Head(str))
       THEN IF Len(str) > 1 /\ IsSpace(str[2])
            THEN CollapseSpaces(Tail(str))
            ELSE << " " >> \o CollapseSpaces(Tail(str))
       ELSE << Head(str) >> \o CollapseSpaces(Tail(str))

\* The characters normalizeText keeps: the complement of [^\w\s@.-].
KeptChar(c) == IsWord(c) \/ IsSpace(c) \/ c = "@" \/ c = "." \/ c = "-"

\* str.replace(/[^\w\s@.-]/g, '')
StripChars(str) == SelectSeq(str, KeptChar)

\* str.replace(/\s/g, '')
RemoveSpaces(str) == SelectSeq(str, LAMBDA c : ~IsSpace(c))

\* (str.match(/\d/g) || []).length
CountDigits(str) == Len(SelectSeq(str, IsDigit))

\* str.split(sep) for a separator made of the characters of the class seps
\* (one character, or a run of them when runs is TRUE): the pieces
\* between separators, empty pieces included, as JavaScript returns them.
RECURSIVE SplitFrom(_, _, _, _)
SplitFrom(str, seps, runs, piece) ==
  IF str = << >> THEN << piece >>
  ELSE IF Head(str) \in seps
       THEN IF runs /\ Len(str) > 1 /\ str[2] \in seps
            THEN SplitFrom(Tail(str), seps, runs, piece)
            ELSE << piece >> \o SplitFrom(Tail(str), seps, runs, << >>)
       ELSE SplitFrom(Tail(str), seps, runs, Append(piece, Head(str)))

Split(str, seps, runs) == SplitFrom(str, seps, runs, << >>)

\* array.filter(s => s.length > 0)
NonEmpty(pieces) == SelectSeq(pieces, LAMBDA s : Len(s) > 0)

(***************************************************************************)
(* The data the engine is run on                                           *)
(***************************************************************************)

\* How many field edits one behaviour makes.
MaxEdits == 1

Ids == { << "u", "1" >>, << "u", "2" >>, << "u", "3" >> }

Names ==
  { << "A", "m", "y" >>, << "A", "M", "Y" >>, << "B", "N", "y" >>,
    << "S", "a", "m", "y" >>, << "A", "b", "e" >> }

Emails ==
  { << "z", "e", "d", "@", "x", ".", "i", "o" >>, << "a", "m", "y", "@", "x", ".", "i", "o" >>,
    << "a", "n", "n", "@", "x", ".", "i", "o" >> }

Companies == { Null, << "A", "c", "m", "e" >> }

Phones == { Null, << "5", "5", "5", "-", "1", "2" >>, << "(", "2", ")", " ", "5", "5", "5" >> }

Fields == { "name", "email", "company", "phone" }

FieldValues(field) ==
  CASE field = "name" -> Names
    [] field = "email" -> Emails
    [] field = "company" -> Companies
    [] field = "phone" -> Phones

Queries ==
  { << >>, << " ", "a", " ", "m", " " >>, << "5", "5" >>, << "-", "-", "-" >>,
    << "a", "m", "y" >>, << "A", "c", "m", "e" >>, << "5", "5", "5" >>,
    << "z", "z", "z" >>, << "c", "m", "e", " ", "a", "b" >> }

Contact(id, name, email, company, phone) ==
  [ id |-> id, name |-> name, email |-> email, company |-> company, phone |-> phone ]

InitialRows ==
  << Contact(<< "u", "1" >>, << "A", "m", "y" >>, << "z", "e", "d", "@", "x", ".", "i", "o" >>,
             << "A", "c", "m", "e" >>, << "5", "5", "5", "-", "1", "2" >>),
     Contact(<< "u", "2" >>, << "A", "b", "e" >>, << "a", "m", "y", "@", "x", ".", "i", "o" >>,
             << "A", "c", "m", "e" >>, Null),
     Contact(<< "u", "3" >>, << "S", "a", "m", "y" >>, << "a", "n", "n", "@", "x", ".", "i", "o" >>,
             Null, << "(", "2", ")", " ", "5", "5", "5" >>) >>

\* A directory with digits in names, emails and companies, so that a numeric
\* query finds phone, name, email and company matches of both tiers.
DirectoryRows ==
  << Contact(<< "u", "1" >>, << "Z", "e", "d" >>, << "z", "e", "d", "@", "x", ".", "i", "o" >>,
             Null, << "5", "5", "5", "-", "1", "2" >>),
     Contact(<< "u", "2" >>, << "5", "5", "5", " ", "A", "m", "y" >>, << "a", "m", "y", "@", "x", ".", "i", "o" >>,
             << "A", "c", "m", "e" >>, Null),
     Contact(<< "u", "3" >>, << "A", "b", "e" >>, << "a", "n", "n", "@", "x", ".", "i", "o" >>,
             << "2", "5", "5", "5", " ", "C", "o" >>, << "(", "2", ")", " ", "5", "5", "5" >>),
     Contact(<< "u", "4" >>, << "A", "l" >>, << "5", "5", "5", "@", "x", ".", "i", "o" >>,
             Null, Null),
     Contact(<< "u", "5" >>, << "B", "o" >>, << "b", "o", "@", "x", ".", "i", "o" >>,
             << "2", "5", "5", "5", " ", "C", "o" >>, Null) >>

DirectoryQueries ==
  { << >>, << "a", "m" >>, << "5", "5", "5" >>, << "5", "5", " ", "5" >>,
    << "a", "m", "y" >>, << "a", "c", "m", "e", " ", "c", "o" >>, << "-", "-", "-" >>,
    << "_", ".", "_" >>, << "!", "!", "!" >>, << "2", "5", "5", "5" >>,
    << "a", "-", "l" >> }

\* Token lists handed to classifyMatch and bestFieldForTie directly.
TokenLists ==
  { << << "5", "5", "5" >> >>, << << "5", "5" >>, << "5" >> >>, << << "a", "m", "y" >> >>,
    << << "a", "c", "m", "e" >>, << "c", "o" >> >>, << << "z", "z", "z" >> >>,
    << << "x" >> >>, << << "2", "5", "5", "5" >>, << "a" >> >>,
    << << "i", "o" >>, << "5", "5" >> >> }

\* Records with fields left null.
SparseRows ==
  << Contact(<< "u", "1" >>, Null, << "a", "m", "y", "@", "x", ".", "i", "o" >>, Null, Null),
     Contact(<< "u", "2" >>, Null, << "a", "m", "y", "@", "x", ".", "i", "o" >>, Null, << "5", "5", "5", "-", "1", "2" >>),
     Contact(<< "u", "3" >>, << "A", "m", "y" >>, Null, << "A", "c", "m", "e" >>, Null) >>

\* The value null where a list of records is expected.
NullList == << Contact(Null, Null, Null, Null, Null) >>

\* The record lists handed to filterAndRank without regard to its signature:
\* no list, the empty list, and lists of sparse records.
SparseLists ==
  { NullList, << >>, << SparseRows[1] >>, << SparseRows[1], SparseRows[3] >>,
    << SparseRows[3], SparseRows[2] >>, << SparseRows[1], SparseRows[2] >>,
    << SparseRows[3], SparseRows[2], SparseRows[1] >> }

SparseQueries ==
  { Null, << >>, << "a", "m" >>, << "a", "m", "y" >>, << "-", "-", "-" >>,
    << "5", "5", "5" >>, << "a", "c", "m", "e" >> }

\* Emails with no, one and two '@', and records carrying them under two ids.
OddEmails ==
  { << "n", "o", "b", "o", "d", "y" >>, << "a", "@", "b", ".", "i", "o" >>,
    << "a", "@", "b", "@", "c", ".", "i", "o" >>, << "@", "x", ".", "i", "o" >>,
    << "x", "@" >>, << "A", "n", "n", "+", "1", "@", "X", ".", "i", "o" >>, Null }

IndexedContacts ==
  { Contact(id, << "A", "m", "y" >>, email, Null, phone) :
      id \in { << "u", "1" >>, << "u", "2" >> }, email \in OddEmails, phone \in { Null, << "5", "5", "5", "-", "1", "2" >> } }

\* Ids that are opaque strings: one is another followed by ':' and more.
ColonIds == { << "u", "1" >>, << "u", "1", ":", "x" >>, << "u", "2" >> }

ColonContact(id, name) ==
  Contact(id, name, << "a", "@", "x", ".", "i", "o" >>, Null, Null)

ColonRows ==
  << ColonContact(<< "u", "1" >>, << "A", "m", "y" >>),
     ColonContact(<< "u", "1", ":", "x" >>, << "A", "b", "e" >>),
     ColonContact(<< "u", "2" >>, << "A", "b", "e" >>) >>

\* The strings normalizeText is called on: with stripped characters between
\* and next to spaces, with runs of spaces, and null.
RawTexts ==
  { << "a", " ", "&", " ", "b" >>,
    << "&", " ", "a" >>,
    << "a", " ", "&" >>,
    << "A", " ", " ", "B" >>,
    << " ", "a", "-", "b", " " >>,
    << "a", "&", "b" >>,
    << >>,
    << "a", " ", "!", " ", "!", " ", "b" >>,
    << "A", "n", "n", "+", "1", "@", "X", ".", "i", "o" >>,
    Null }

\* Every contact the rows can hold.

ContactSpace ==
  { Contact(id, name, email, company, phone) :
      id \in Ids, name \in Names, email \in Emails, company \in Companies, phone \in Phones }
    \cup { DirectoryRows[i] : i \in 1..Len(DirectoryRows) }
    \cup { SparseRows[i] : i \in 1..Len(SparseRows) }
    \cup { ColonContact(id, name) : id \in ColonIds, name \in Names }

\* The lists handed to filterAndRank: the rows in store order, rotated, and
\* reversed, so that every two rows come in both relative orders.
RowLists(rows) ==
  LET n == Len(rows)
      orders == { [ i \in 1..n |-> ((i + k - 1) % n) + 1 ] : k \in 0..(n - 1) }
                  \cup { [ i \in 1..n |-> n + 1 - i ] }
  IN  { [ i \in 1..Len(rows) |-> rows[p[i]] ] : p \in orders }

(***************************************************************************)
(* 32-bit integers: a value of JavaScript's int32 is kept as its two's     *)
(* complement word, split in two 16-bit halves.                            *)
(***************************************************************************)

HalfWord == 65536

Word(hi, lo) == [ hi |-> hi, lo |-> lo ]

\* hash << 5
ShiftLeft5(w) ==
  Word((w.hi * 32 + (w.lo \div 2048)) % HalfWord, (w.lo * 32) % HalfWord)

\* a - b, modulo 2^32
Sub32(a, b) ==
  LET lo == a.lo - b.lo
      borrow == IF lo < 0 THEN 1 ELSE 0
  IN  Word((a.hi - b.hi - borrow + 2 * HalfWord) % HalfWord, (lo + HalfWord) % HalfWord)

\* a + char, modulo 2^32, for a char code
AddCode32(a, code) ==
  LET lo == a.lo + code
  IN  Word((a.hi + (lo \div HalfWord)) % HalfWord, lo % HalfWord)

\* The signed value of a word: what "hash & hash" leaves in hash.
ToInt32(w) ==
  IF w.hi >= 32768 THEN (w.hi - HalfWord) * HalfWord + w.lo
  ELSE w.hi * HalfWord + w.lo

\* The decimal digits of a natural number.
RECURSIVE NatToString(_)
NatToString(n) ==
  IF n < 10 THEN << Ascii[17 + n] >>
  ELSE Append(NatToString(n \div 10), Ascii[17 + (n % 10)])

\* String(n) for an int32, as the template literal `${hash}` renders it.
IntToString(n) ==
  IF n >= 0 THEN NatToString(n)
  ELSE IF n = (0 - 2147483647) - 1
       THEN << "-", "2", "1", "4", "7", "4", "8", "3", "6", "4", "8" >>
       ELSE << "-" >> \o NatToString(0 - n)

(***************************************************************************)
(* Normalizer, tokenizer, index builder                                    *)
(***************************************************************************)

\* "!str": null, undefined and the empty string are falsy.
Falsy(str) == str = Null \/ str = << >>

normalizeText(str) ==
  IF Falsy(str) THEN << >>
  ELSE StripChars(CollapseSpaces(Trim(ToLowerCase(str))))

normalizePhone(str) ==
  IF Falsy(str) THEN << >>
  ELSE SelectSeq(str, IsDigit)

\* The separator class [\s\-_.] of tokenize.
TokenSeparators == { " ", "-", "_", "." }

tokenize(query) == NonEmpty(Split(normalizeText(query), TokenSeparators, TRUE))

At == { "@" }

\* parts[i] || '' for a 1-based position i of the array parts.
PartOrEmpty(parts, i) == IF i <= Len(parts) THEN parts[i] ELSE << >>

\* buildIndex that indexes the id with the name.
buildIndexWithId(contact) ==
  [ nameWords |-> << normalizeText(contact.id) >>
                    \o NonEmpty(Split(normalizeText(contact.name), Spaces, TRUE)),
    nameFull |-> normalizeText(contact.id) \o << " " >> \o normalizeText(contact.name),
    emailLocal |-> PartOrEmpty(Split(normalizeText(contact.email), At, FALSE), 1),
    emailDomain |-> PartOrEmpty(Split(normalizeText(contact.email), At, FALSE), 2),
    companyWords |-> NonEmpty(Split(normalizeText(contact.company), Spaces, TRUE)),
    phoneDigits |-> normalizePhone(contact.phone) ]

buildIndex(contact) ==
  LET nameFull == normalizeText(contact.name)
      nameWords == NonEmpty(Split(nameFull, Spaces, TRUE))
      email == normalizeText(contact.email)
      emailParts == Split(email, At, FALSE)
      company == normalizeText(contact.company)
      companyWords == NonEmpty(Split(company, Spaces, TRUE))
      phoneDigits == normalizePhone(contact.phone)
  IN  [ nameWords |-> nameWords,
        nameFull |-> nameFull,
        emailLocal |-> PartOrEmpty(emailParts, 1),
        emailDomain |-> PartOrEmpty(emailParts, 2),
        companyWords |-> companyWords,
        phoneDigits |-> phoneDigits ]

(***************************************************************************)
(* Index cache                                                             *)
(***************************************************************************)

\* value || ''
OrEmpty(str) == IF Falsy(str) THEN << >> ELSE str

\* Array.prototype.join renders null and undefined as the empty string.
JoinPart(str) == IF str = Null THEN << >> ELSE str

\* [name, email || '', company || '', phone || ''].join('|')
searchableData(contact) ==
  JoinPart(contact.name) \o << "|" >> \o OrEmpty(contact.email) \o << "|" >>
    \o OrEmpty(contact.company) \o << "|" >> \o OrEmpty(contact.phone)

\* One round of the loop: hash = ((hash << 5) - hash) + char; hash = hash & hash
HashStep(hash, c) == AddCode32(Sub32(ShiftLeft5(hash), hash), CharCode[c])

\* The loop "for (i = 0; i < searchableData.length; i++)" from a given hash
\* on. (The singleton set binds the hash of each round to its value, so that
\* it is computed once, before the next round.)
RECURSIVE HashFrom(_, _)
HashFrom(hash, str) ==
  IF str = << >> THEN hash
  ELSE CHOOSE result \in { HashFrom(next, Tail(str)) : next \in { HashStep(hash, Head(str)) } } : TRUE

\* The fingerprint of the searchable fields, as a signed 32-bit integer.
fingerprint(contact) == ToInt32(HashFrom(Word(0, 0), searchableData(contact)))

getCacheKey(contact) == contact.id \o << ":" >> \o IntToString(fingerprint(contact))

\* getCacheKey and buildIndex of every contact of ContactSpace, evaluated once.
cacheKeyOf == [ contact \in ContactSpace |-> getCacheKey(contact) ]

indexOf == [ contact \in ContactSpace |-> buildIndex(contact) ]

\* indexCache.get(key): the cache is the Map's entries in insertion order.
CacheKeys(cache) == { cache[i].key : i \in 1..Len(cache) }

CacheGet(cache, key) == (CHOOSE i \in 1..Len(cache) : cache[i].key = key)

\* EvictStale without the loop: stale entries stay.
EvictNothing(cache, contactIdPrefix, cacheKey) == cache

\* The loop of getMemoizedIndex that deletes the stale entries of a contact.
EvictStale(cache, contactIdPrefix, cacheKey) ==
  SelectSeq(cache, LAMBDA e : ~(StartsWith(e.key, contactIdPrefix) /\ e.key # cacheKey))

\* getMemoizedIndex with the cache keyed on the record id alone: any entry of
\* the id is served, whatever its fingerprint.
lookupByIdOnly(contact, cache) ==
  LET own == SelectSeq(cache, LAMBDA e : StartsWith(e.key, contact.id \o << ":" >>))
  IN  IF own # << >>
      THEN [ index |-> own[1].index, cache |-> cache, hit |-> TRUE ]
      ELSE [ index |-> indexOf[contact],
             cache |-> Append(cache, [ key |-> cacheKeyOf[contact], index |-> indexOf[contact] ]),
             hit |-> FALSE ]

\* getMemoizedIndex without the lookup: every call builds and stores anew.
alwaysRebuild(contact, cache) ==
  [ index |-> indexOf[contact],
    cache |-> Append(SelectSeq(cache, LAMBDA e : ~StartsWith(e.key, contact.id \o << ":" >>)),
                     [ key |-> cacheKeyOf[contact], index |-> indexOf[contact] ]),
    hit |-> FALSE ]

\* getMemoizedIndex on a given cache: the index returned, the cache it leaves
\* and whether the lookup was a hit.
getMemoizedIndex(contact, cache) ==
  LET cacheKey == cacheKeyOf[contact]
  IN  IF cacheKey \in CacheKeys(cache)
      THEN [ index |-> cache[CacheGet(cache, cacheKey)].index, cache |-> cache, hit |-> TRUE ]
      ELSE LET index == indexOf[contact]
               stored == Append(cache, [ key |-> cacheKey, index |-> index ])
           IN  [ index |-> index,
                 cache |-> EvictStale(stored, contact.id \o << ":" >>, cacheKey),
                 hit |-> FALSE ]

(***************************************************************************)
(* Match classifier and tie-break resolver                                 *)
(***************************************************************************)

hasPrefix(haystackWords, token) ==
  \E i \in 1..Len(haystackWords) : StartsWith(haystackWords[i], token)

hasSubstring(haystackStrings, token) ==
  \E i \in 1..Len(haystackStrings) : Includes(haystackStrings[i], token)

\* /^\d+$/.test(token)
AllDigits(token) == Len(token) > 0 /\ \A i \in 1..Len(token) : IsDigit(token[i])

\* /^\d{3,}/.test(token)
StartsWithThreeDigits(token) == Len(token) >= 3 /\ \A i \in 1..3 : IsDigit(token[i])

\* The four prefix checks classifyMatch makes for one token.
PrefixHit(token, index) ==
  \/ hasPrefix(index.nameWords, token)
  \/ hasPrefix(index.companyWords, token)
  \/ StartsWith(index.emailLocal, token) \/ StartsWith(index.emailDomain, token)
  \/ AllDigits(token) /\ StartsWith(index.phoneDigits, token)

\* The substring fallback of classifyMatch for one token.
SubstringHit(token, index) ==
  hasSubstring(<< index.nameFull, index.emailLocal, index.emailDomain >>
                 \o index.companyWords \o << index.phoneDigits >>, token)

\* The value null of classifyMatch's result type 1 | 2 | null.
NullTier == 0

\* classifyMatch counting the prefix hits: tier 1 needs exactly one token
\* with a prefix hit.
ClassifyOnePrefix(tokens, index, hasAnyPrefix) ==
  IF \A i \in 1..Len(tokens) : PrefixHit(tokens[i], index) \/ SubstringHit(tokens[i], index)
  THEN (IF Cardinality({ i \in 1..Len(tokens) : PrefixHit(tokens[i], index) }) = 1
        THEN 1 ELSE 2)
  ELSE NullTier

\* classifyMatch with OR across the tokens: one matching token is enough.
ClassifyAnyToken(tokens, index, hasAnyPrefix) ==
  IF \E i \in 1..Len(tokens) : PrefixHit(tokens[i], index) \/ SubstringHit(tokens[i], index)
  THEN (IF \E i \in 1..Len(tokens) : PrefixHit(tokens[i], index) THEN 1 ELSE 2)
  ELSE NullTier

\* classifyMatch with hasAnyPrefix tracked per token: tier 1 needs a prefix
\* hit of every token.
ClassifyEveryPrefix(tokens, index, hasAnyPrefix) ==
  IF \A i \in 1..Len(tokens) : PrefixHit(tokens[i], index) \/ SubstringHit(tokens[i], index)
  THEN (IF \A i \in 1..Len(tokens) : PrefixHit(tokens[i], index) THEN 1 ELSE 2)
  ELSE NullTier

\* classifyMatch that tests the first token only.
ClassifyFirstToken(tokens, index, hasAnyPrefix) ==
  IF tokens = << >> THEN (IF hasAnyPrefix THEN 1 ELSE 2)
  ELSE IF PrefixHit(Head(tokens), index) THEN 1
  ELSE IF SubstringHit(Head(tokens), index) THEN 2
  ELSE NullTier

\* The loop of classifyMatch from a given token on, hasAnyPrefix carried along.
RECURSIVE ClassifyFrom(_, _, _)
ClassifyFrom(tokens, index, hasAnyPrefix) ==
  IF tokens = << >> THEN (IF hasAnyPrefix THEN 1 ELSE 2)
  ELSE LET token == Head(tokens)
           prefix == PrefixHit(token, index)
           tokenMatches == prefix \/ SubstringHit(token, index)
       IN  IF ~tokenMatches THEN NullTier
           ELSE ClassifyFrom(Tail(tokens), index, hasAnyPrefix \/ prefix)

classifyMatch(tokens, index) == ClassifyFrom(tokens, index, FALSE)

normalPriority == << "name", "email", "company", "phone" >>

numericPriority == << "phone", "name", "email", "company" >>

\* The switch of bestFieldForTie: does token satisfy field's condition at tier.
FieldCondition(field, token, index, tier) ==
  CASE field = "name" ->
         \/ tier = 1 /\ hasPrefix(index.nameWords, token)
         \/ tier = 2 /\ Includes(index.nameFull, token)
    [] field = "email" ->
         \/ tier = 1 /\ (StartsWith(index.emailLocal, token) \/ StartsWith(index.emailDomain, token))
         \/ tier = 2 /\ (Includes(index.emailLocal, token) \/ Includes(index.emailDomain, token))
    [] field = "company" ->
         \/ tier = 1 /\ hasPrefix(index.companyWords, token)
         \/ tier = 2 /\ hasSubstring(index.companyWords, token)
    [] field = "phone" ->
         /\ AllDigits(token)
         /\ \/ tier = 1 /\ StartsWith(index.phoneDigits, token)
            \/ tier = 2 /\ Includes(index.phoneDigits, token)

\* The inner loop over the tokens: fieldMatches.
FieldMatches(field, tokens, index, tier) ==
  \E i \in 1..Len(tokens) : FieldCondition(field, tokens[i], index, tier)

\* The outer loop over the priority list, with the fallback to name.
RECURSIVE FirstMatchingField(_, _, _, _)
FirstMatchingField(priority, tokens, index, tier) ==
  IF priority = << >> THEN "name"
  ELSE IF FieldMatches(Head(priority), tokens, index, tier) THEN Head(priority)
       ELSE FirstMatchingField(Tail(priority), tokens, index, tier)

\* bestFieldForTie without the numericIntent test: always the normal order.
bestFieldNormalOrder(tokens, index, tier, numericIntent) ==
  FirstMatchingField(normalPriority, tokens, index, tier)

\* bestFieldForTie with the conditions of tier 1 at either tier.
bestFieldByPrefix(tokens, index, tier, numericIntent) ==
  FirstMatchingField(IF numericIntent THEN numericPriority ELSE normalPriority,
                     tokens, index, 1)

bestFieldForTie(tokens, index, tier, numericIntent) ==
  FirstMatchingField(IF numericIntent THEN numericPriority ELSE normalPriority,
                     tokens, index, tier)

(***************************************************************************)
(* Ranking pipeline                                                        *)
(***************************************************************************)

\* Collation order of printable ASCII under the root locale, letters without
\* their case: what localeCompare(..., { sensitivity: 'base' }) compares.
RootOrder ==
  << " ", "_", "-", ",", ";", ":", "!", "?", ".", "'", "\"", "(", ")", "[", "]", "{",
     "}", "@", "*", "/", "\\", "&", "#", "%", "grave", "^", "+", "<", "=", ">", "|", "~",
     "$", "0", "1", "2", "3", "4", "5", "6", "7", "8", "9", "a", "b", "c", "d", "e",
     "f", "g", "h", "i", "j", "k", "l", "m", "n", "o", "p", "q", "r", "s", "t", "u",
     "v", "w", "x", "y", "z" >>

PrimaryWeight ==
  [ c \in Char |-> CHOOSE i \in 1..Len(RootOrder) : RootOrder[i] = ToLowerChar[c] ]

\* a.localeCompare(b, undefined, { sensitivity: 'base' }): negative, zero or positive.
RECURSIVE localeCompare(_, _)
localeCompare(a, b) ==
  IF a = << >> THEN (IF b = << >> THEN 0 ELSE 0 - 1)
  ELSE IF b = << >> THEN 1
  ELSE IF PrimaryWeight[Head(a)] # PrimaryWeight[Head(b)]
       THEN (IF PrimaryWeight[Head(a)] < PrimaryWeight[Head(b)] THEN 0 - 1 ELSE 1)
       ELSE localeCompare(Tail(a), Tail(b))

\* fieldPriority without the numericIntent test: always the normal table.
fieldPriorityNormal(numericIntent, bestField) ==
  CASE bestField = "name" -> 0 [] bestField = "email" -> 1
    [] bestField = "company" -> 2 [] bestField = "phone" -> 3

\* fieldPriority[bestField] of the sort comparator.
fieldPriority(numericIntent, bestField) ==
  IF numericIntent
  THEN CASE bestField = "phone" -> 0 [] bestField = "name" -> 1
         [] bestField = "email" -> 2 [] bestField = "company" -> 3
  ELSE CASE bestField = "name" -> 0 [] bestField = "email" -> 1
         [] bestField = "company" -> 2 [] bestField = "phone" -> 3

\* The comparator without its first test: tiers are not compared.
compareWithoutTier(a, b, numericIntent) ==
  IF fieldPriority(numericIntent, a.bestField) # fieldPriority(numericIntent, b.bestField)
  THEN fieldPriority(numericIntent, a.bestField) - fieldPriority(numericIntent, b.bestField)
  ELSE localeCompare(a.contact.name, b.contact.name)

\* The comparator handed to results.sort.
compareResults(a, b, numericIntent) ==
  IF a.tier # b.tier THEN a.tier - b.tier
  ELSE IF fieldPriority(numericIntent, a.bestField) # fieldPriority(numericIntent, b.bestField)
       THEN fieldPriority(numericIntent, a.bestField) - fieldPriority(numericIntent, b.bestField)
       ELSE localeCompare(a.contact.name, b.contact.name)

\* GreaterThan of an unstable sort: x goes before the elements it ties with.
GreaterOrEqual(sorted, x, numericIntent) ==
  { i \in 1..Len(sorted) : compareResults(sorted[i], x, numericIntent) >= 0 }

\* The positions of sorted whose element compares greater than x.
GreaterThan(sorted, x, numericIntent) ==
  { i \in 1..Len(sorted) : compareResults(sorted[i], x, numericIntent) > 0 }

InsertAt(sorted, x, at) ==
  SubSeq(sorted, 1, at - 1) \o << x >> \o SubSeq(sorted, at, Len(sorted))

FirstOf(positions, default) ==
  IF positions = { } THEN default
  ELSE CHOOSE i \in positions : \A j \in positions : i <= j

\* Array.prototype.sort is a stable sort: each element goes behind the
\* elements already placed that do not compare greater than it.
InsertSorted(sorted, x, numericIntent) ==
  InsertAt(sorted, x, FirstOf(GreaterThan(sorted, x, numericIntent), Len(sorted) + 1))

RECURSIVE SortFrom(_, _, _)
SortFrom(sorted, rest, numericIntent) ==
  IF rest = << >> THEN sorted
  ELSE SortFrom(InsertSorted(sorted, Head(rest), numericIntent), Tail(rest), numericIntent)

sortResults(results, numericIntent) == SortFrom(<< >>, results, numericIntent)

\* PushMatch keeping the prefix matches only: tier 2 is dropped too.
PushPrefixOnly(results, contact, index, tier, tokens, numericIntent) ==
  IF tier = 1
  THEN Append(results,
              [ contact |-> contact, tier |-> tier,
                bestField |-> bestFieldForTie(tokens, index, tier, numericIntent),
                index |-> index ])
  ELSE results

\* PushMatch with unshift for push: the matches pile up in reverse.
UnshiftMatch(results, contact, index, tier, tokens, numericIntent) ==
  IF tier # NullTier
  THEN << [ contact |-> contact, tier |-> tier,
            bestField |-> bestFieldForTie(tokens, index, tier, numericIntent),
            index |-> index ] >> \o results
  ELSE results

\* results.push({ contact, tier, bestField, index }) when tier is not null.
PushMatch(results, contact, index, tier, tokens, numericIntent) ==
  IF tier # NullTier
  THEN Append(results,
              [ contact |-> contact, tier |-> tier,
                bestField |-> bestFieldForTie(tokens, index, tier, numericIntent),
                index |-> index ])
  ELSE results

\* One round of the loop over the contacts, memo being what getMemoizedIndex
\* returned for the contact: done.served lists the index of every contact
\* looked up so far, in input order.
ClassifyOne(contact, memo, tokens, numericIntent, done) ==
  [ results |-> PushMatch(done.results, contact, memo.index,
                          classifyMatch(tokens, memo.index), tokens, numericIntent),
    cache |-> memo.cache,
    served |-> Append(done.served, memo.index) ]

\* The loop over the contacts: looks each index up through the cache and
\* keeps the contacts whose tier is not null.
RECURSIVE ClassifyAll(_, _, _, _)
ClassifyAll(contacts, tokens, numericIntent, done) ==
  IF contacts = << >> THEN done
  ELSE ClassifyAll(Tail(contacts), tokens, numericIntent,
                   ClassifyOne(Head(contacts), getMemoizedIndex(Head(contacts), done.cache),
                               tokens, numericIntent, done))

\* results.map(r => r.contact)
Contacts(results) == [ i \in 1..Len(results) |-> results[i].contact ]

\* The gate with OR for AND: either count below 3 closes it.
GateClosesOnEither(query) ==
  CountDigits(Trim(query)) < 3 \/ Len(RemoveSpaces(Trim(query))) < 3

\* The minimum-length gate: TRUE when filterAndRank returns at once.
GateCloses(query) ==
  LET trimmedQuery == Trim(query)
      digitCount == CountDigits(trimmedQuery)
      nonSpaceCharCount == Len(RemoveSpaces(trimmedQuery))
  IN  nonSpaceCharCount < 3 /\ digitCount < 3

\* What filterAndRank hands back: the list returned (out), the cache left,
\* the return statement taken (path), and for the ranked path the sorted
\* results array and the indexes served.
Unranked(contacts, cache, path) ==
  [ out |-> contacts, cache |-> cache, path |-> path, results |-> << >>, served |-> << >> ]

SortAndMap(all, sorted) ==
  [ out |-> Contacts(sorted), cache |-> all.cache, path |-> "ranked",
    results |-> sorted, served |-> all.served ]

SortAll(all, numericIntent) == SortAndMap(all, sortResults(all.results, numericIntent))

\* tokens.some(token => /^\d{3,}/.test(token))
NumericIntent(tokens) == \E i \in 1..Len(tokens) : StartsWithThreeDigits(tokens[i])

RankWith(contacts, tokens, numericIntent, cache) ==
  SortAll(ClassifyAll(contacts, tokens, numericIntent,
                      [ results |-> << >>, cache |-> cache, served |-> << >> ]),
          numericIntent)

\* RankTokens without the empty-token return: the loop runs on no tokens.
RankWithoutTokens(contacts, tokens, cache) ==
  RankWith(contacts, tokens, NumericIntent(tokens), cache)

RankTokens(contacts, tokens, cache) ==
  IF Len(tokens) = 0 THEN Unranked(contacts, cache, "no tokens")
  ELSE RankWith(contacts, tokens, NumericIntent(tokens), cache)

\* filterAndRank on a given cache.
filterAndRank(contacts, query, cache) ==
  IF GateCloses(query) THEN Unranked(contacts, cache, "gate")
  ELSE RankTokens(contacts, tokenize(query), cache)

\* filterAndRank on arguments its signature excludes: a statement that
\* dereferences null raises a TypeError, and the call ends there with the
\* cache as the lookups made so far left it.
Thrown(cache) ==
  [ out |-> << >>, cache |-> cache, path |-> "TypeError", results |-> << >>, served |-> << >> ]

\* The comparator reaches a.contact.name.localeCompare with a null name:
\* two results tie on tier and field priority and both names are null, so
\* whichever the sort passes first, the call on it raises.
TiedNullNames(results, numericIntent) ==
  \E i, j \in 1..Len(results) :
     /\ i # j
     /\ results[i].contact.name = Null
     /\ results[j].contact.name = Null
     /\ results[i].tier = results[j].tier
     /\ fieldPriority(numericIntent, results[i].bestField)
          = fieldPriority(numericIntent, results[j].bestField)

SortOrThrow(all, numericIntent) ==
  IF TiedNullNames(all.results, numericIntent) THEN Thrown(all.cache)
  ELSE SortAll(all, numericIntent)

\* From tokenize on: the loop over contacts raises when contacts is null.
RankAny(contacts, tokens, cache) ==
  IF Len(tokens) = 0 THEN Unranked(contacts, cache, "no tokens")
  ELSE IF contacts = NullList THEN Thrown(cache)
  ELSE SortOrThrow(ClassifyAll(contacts, tokens, NumericIntent(tokens),
                               [ results |-> << >>, cache |-> cache, served |-> << >> ]),
                   NumericIntent(tokens))

\* query.trim() raises when query is null.
filterAndRankAny(contacts, query, cache) ==
  IF query = Null THEN Thrown(cache)
  ELSE IF GateCloses(query) THEN Unranked(contacts, cache, "gate")
  ELSE RankAny(contacts, tokenize(query), cache)

(***************************************************************************)
(* Contact types of the storage layer                                      *)
(***************************************************************************)

\* An argument that is not given.
Undefined == << "undefined" >>

ContactTypeItem(id, label, isActive, sortOrder) ==
  [ id |-> id, label |-> label, isActive |-> isActive, sortOrder |-> sortOrder ]

\* The id randomUUID() gives the i-th contact type: a string no other type has.
TypeId(i) == << "t" >> \o NatToString(i)

\* The labels the constructor of MemStorage seeds.
SeedLabels ==
  << << "B", "r", "o", "k", "e", "r" >>, << "O", "w", "n", "e", "r" >>,
     << "L", "e", "n", "d", "e", "r" >>, << "I", "n", "v", "e", "s", "t", "o", "r" >>,
     << "V", "e", "n", "d", "o", "r" >> >>

SeedTypes == [ i \in 1..Len(SeedLabels) |-> ContactTypeItem(TypeId(i), SeedLabels[i], TRUE, i - 1) ]

\* A contact as MemStorage.createContact stores it, with its contactType.
TypedContact(id, name, contactType) ==
  [ id |-> id, name |-> name, email |-> << "a", "@", "x", ".", "i", "o" >>,
    company |-> Null, phone |-> Null, contactType |-> contactType ]

\* Two contacts: one typed in lower case, one with no type.
TypedRows ==
  << TypedContact(<< "u", "1" >>, << "Z", "e", "d" >>, << "b", "r", "o", "k", "e", "r" >>),
     TypedContact(<< "u", "2" >>, << "A", "m", "y" >>, Null) >>

\* The labels handed to createContactType and updateContactType: each has
\* the one character the schema asks for.
TypeLabels == { << "O", "w", "n", "e", "r", " " >>, << " " >> }

\* The most contact types the storage is let to hold.
MaxTypes == 6

\* The ids the calls are made on: two seeded types, the first created one,
\* and an id no type has.
CalledTypeIds == { TypeId(1), TypeId(2), TypeId(6), << "z", "z" >> }

\* The ids updateContactType is called on.
UpdatedTypeIds == { TypeId(1), TypeId(6), << "z", "z" >> }

\* The position of the type with this id in types, 0 when there is none:
\* this.contactTypes.get(id)
TypeAt(types, id) ==
  IF \E i \in 1..Len(types) : types[i].id = id
  THEN CHOOSE i \in 1..Len(types) : types[i].id = id
  ELSE 0

\* The first type whose label is label up to case, 0 when there is none:
\* Array.from(this.contactTypes.values()).find(...)
TypeLabelled(types, label) ==
  FirstOf({ i \in 1..Len(types) : ToLowerCase(types[i].label) = ToLowerCase(label) }, 0)

\* What a call on the contact types hands back: the value returned, the
\* types and the contacts it leaves.
Stored(returned, types, contacts) ==
  [ returned |-> returned, types |-> types, contacts |-> contacts ]

\* createContactType({ label, isActive }); the id of the type is returned.
createContactType(types, contacts, label, isActive) ==
  IF TypeLabelled(types, Trim(label)) # 0
  THEN Stored(types[TypeLabelled(types, Trim(label))].id,
              [ types EXCEPT ![TypeLabelled(types, Trim(label))].isActive = TRUE ],
              contacts)
  ELSE Stored(TypeId(Len(types) + 1),
              Append(types, ContactTypeItem(TypeId(Len(types) + 1), Trim(label),
                                            IF isActive = "undefined" THEN TRUE ELSE isActive = "true",
                                            0)),
              contacts)

\* updateContactType(id, { label, isActive }); the id is returned, Undefined
\* for no type.
updateContactType(types, contacts, id, label, isActive) ==
  IF TypeAt(types, id) = 0 THEN Stored(Undefined, types, contacts)
  ELSE Stored(id,
              [ types EXCEPT ![TypeAt(types, id)] =
                  [ @ EXCEPT !.label = IF label # Undefined THEN Trim(label) ELSE @,
                             !.isActive = IF isActive = "undefined" THEN @ ELSE isActive = "true" ] ],
              contacts)

\* (c.contactType ?? "").toLowerCase()
LowerType(contactType) == ToLowerCase(JoinPart(contactType))

\* countContactsByTypeLabel(label)
countContactsByTypeLabel(contacts, label) ==
  Cardinality({ i \in 1..Len(contacts) : LowerType(contacts[i].contactType) = LowerType(label) })

\* The loop of deleteContactType: the contacts of the type get the
\* replacement's label.
Reassigned(contacts, item, replacement) ==
  [ i \in 1..Len(contacts) |->
      IF LowerType(contacts[i].contactType) = ToLowerCase(item.label)
      THEN [ contacts[i] EXCEPT !.contactType = replacement.label ]
      ELSE contacts[i] ]

\* The soft delete that ends deleteContactType.
SoftDeleted(types, id, contacts) ==
  Stored(TRUE, [ types EXCEPT ![TypeAt(types, id)].isActive = FALSE ], contacts)

\* deleteContactType(id, { reassignToId })
deleteContactType(types, contacts, id, reassignToId) ==
  IF TypeAt(types, id) = 0 THEN Stored(FALSE, types, contacts)
  ELSE IF countContactsByTypeLabel(contacts, types[TypeAt(types, id)].label) > 0
       THEN IF reassignToId = Undefined \/ reassignToId = << >> THEN Stored(FALSE, types, contacts)
            ELSE IF TypeAt(types, reassignToId) = 0 THEN Stored(FALSE, types, contacts)
            ELSE SoftDeleted(types, id,
                             Reassigned(contacts, types[TypeAt(types, id)],
                                        types[TypeAt(types, reassignToId)]))
       ELSE SoftDeleted(types, id, contacts)

(***************************************************************************)
(* State                                                                   *)
(***************************************************************************)

VARIABLES
  rows,        \* the contacts as the storage layer serves them
  indexCache,  \* the Map of memo-index: entries [key, index] in insertion order
  call,        \* the last call made: its name, arguments, result and what it did
  seen,        \* per contact id: the contact as last handed to getMemoizedIndex,
               \* the index handed back, and whether the cache was cleared since
  edits,       \* number of field edits made
  table,       \* the table component mounted on the rows, if one is: its React
               \* state, the rows it displays and what the user did to it
  contactTypes \* the contact types of the storage layer, in insertion order

vars == << rows, indexCache, call, seen, edits, table, contactTypes >>

\* seen after getMemoizedIndex handed back indexes[i] for contacts[i].
Looked(s, contacts, indexes) ==
  LET last(id) == CHOOSE i \in 1..Len(contacts) :
                     /\ contacts[i].id = id
                     /\ \A j \in (i + 1)..Len(contacts) : contacts[j].id # id
  IN  [ id \in DOMAIN s \cup { contacts[i].id : i \in 1..Len(contacts) } |->
          IF \E i \in 1..Len(contacts) : contacts[i].id = id
          THEN [ contact |-> contacts[last(id)], index |-> indexes[last(id)], cleared |-> FALSE ]
          ELSE s[id] ]

\* No table component is mounted.
NoTable == [ component |-> "none" ]

Init ==
  /\ rows = InitialRows
  /\ indexCache = << >>
  /\ call = [ op |-> "none" ]
  /\ seen = << >>
  /\ edits = 0
  /\ table = NoTable
  /\ contactTypes = SeedTypes

\* MemStorage.updateContact: one searchable field of one contact changes.
EditContact(i, field, value) ==
  /\ edits < MaxEdits
  /\ rows[i][field] # value
  /\ rows' = [ rows EXCEPT ![i] = [ @ EXCEPT ![field] = value ] ]
  /\ edits' = edits + 1
  /\ call' = [ op |-> "updateContact" ]
  /\ UNCHANGED << indexCache, seen, table, contactTypes >>

\* What a getMemoizedIndex call that handed back memo leaves.
Memoized(contact, memo) ==
  /\ indexCache' = memo.cache
  /\ call' = [ op |-> "getMemoizedIndex", contact |-> contact, index |-> memo.index,
               hit |-> memo.hit, before |-> indexCache, seenBefore |-> seen ]
  /\ seen' = Looked(seen, << contact >>, << memo.index >>)
  /\ UNCHANGED << rows, edits, table, contactTypes >>

\* getMemoizedIndex(rows[i])
GetMemoizedIndex(i) == Memoized(rows[i], getMemoizedIndex(rows[i], indexCache))

\* clearIndexCache deleting one entry, the oldest, for all of them.
ClearOldestEntry ==
  /\ indexCache' = IF indexCache = << >> THEN << >> ELSE Tail(indexCache)
  /\ call' = [ op |-> "clearIndexCache", before |-> indexCache ]
  /\ seen' = [ id \in DOMAIN seen |-> [ seen[id] EXCEPT !.cleared = TRUE ] ]
  /\ UNCHANGED << rows, edits, table, contactTypes >>

\* clearIndexCache()
ClearIndexCache ==
  /\ indexCache' = << >>
  /\ call' = [ op |-> "clearIndexCache", before |-> indexCache ]
  /\ seen' = [ id \in DOMAIN seen |-> [ seen[id] EXCEPT !.cleared = TRUE ] ]
  /\ UNCHANGED << rows, edits, table, contactTypes >>

\* What a filterAndRank call that handed back r leaves in call, seen and the cache.
Returned(op, contacts, query, first, r) ==
  /\ indexCache' = r.cache
  /\ call' = [ op |-> op, records |-> contacts, query |-> query, out |-> r.out,
               path |-> r.path, served |-> r.served, first |-> first ]
  /\ seen' = IF r.path = "ranked" THEN Looked(seen, contacts, r.served) ELSE seen
  /\ UNCHANGED << rows, edits, table, contactTypes >>

Ranked(op, contacts, query, first) ==
  Returned(op, contacts, query, first, filterAndRank(contacts, query, indexCache))

\* filterAndRank(contacts, query) on a list of the rows
FilterAndRank(contacts, query) == Ranked("filterAndRank", contacts, query, << >>)

\* filterAndRank(previous result, same query)
RankAgain ==
  /\ call.op = "filterAndRank"
  /\ Ranked("filterAndRank again", call.out, call.query, call.out)

\* The ranking pipeline on rows whose names are edited between the calls.
Next ==
  \/ \E i \in 1..Len(rows) : \E value \in Names : EditContact(i, "name", value)
  \/ \E contacts \in RowLists(rows), query \in Queries : FilterAndRank(contacts, query)
  \/ RankAgain

Spec == Init /\ [][Next]_vars

\* The index cache on rows any searchable field of which is edited between
\* the calls.
NextCache ==
  \/ \E i \in 1..Len(rows), field \in Fields : \E value \in FieldValues(field) :
        EditContact(i, field, value)
  \/ \E i \in 1..Len(rows) : GetMemoizedIndex(i)
  \/ ClearIndexCache

SpecCache == Init /\ [][NextCache]_vars

InitColon ==
  /\ rows = ColonRows
  /\ indexCache = << >>
  /\ call = [ op |-> "none" ]
  /\ seen = << >>
  /\ edits = 0
  /\ table = NoTable
  /\ contactTypes = SeedTypes

\* The index cache on rows one id of which begins with another id and ':',
\* the names edited between the calls.
NextColon ==
  \/ \E i \in 1..Len(rows) : \E value \in Names : EditContact(i, "name", value)
  \/ \E i \in 1..Len(rows) : GetMemoizedIndex(i)
  \/ ClearIndexCache

SpecColon == InitColon /\ [][NextColon]_vars

\* filterAndRank(contacts, query) with the cache it found and the results
\* array it sorted kept for inspection.
Searched(contacts, query, r) ==
  /\ indexCache' = r.cache
  /\ call' = [ op |-> "filterAndRank", records |-> contacts, query |-> query, out |-> r.out,
               path |-> r.path, served |-> r.served, first |-> << >>,
               results |-> r.results, before |-> indexCache ]
  /\ seen' = IF r.path = "ranked" THEN Looked(seen, contacts, r.served) ELSE seen
  /\ UNCHANGED << rows, edits, table, contactTypes >>

Search(contacts, query) == Searched(contacts, query, filterAndRank(contacts, query, indexCache))

\* filterAndRank(rows, rows[i].email): a search for the whole email address
\* of one of the rows.
SearchOwnEmail(i) ==
  Searched(rows, rows[i].email, filterAndRank(rows, rows[i].email, indexCache))

InitDirectory ==
  /\ rows = DirectoryRows
  /\ indexCache = << >>
  /\ call = [ op |-> "none" ]
  /\ seen = << >>
  /\ edits = 0
  /\ table = NoTable
  /\ contactTypes = SeedTypes

\* Searches of a fixed directory, the cache cleared now and then.
NextDirectory ==
  \/ \E contacts \in RowLists(rows), query \in DirectoryQueries : Search(contacts, query)
  \/ \E i \in 1..Len(rows) : SearchOwnEmail(i)
  \/ ClearIndexCache

SpecDirectory == InitDirectory /\ [][NextDirectory]_vars

\* bestFieldForTie(tokens, index, tier, numericIntent) called on its own.
BestFieldForTie(tokens, contact, tier, numericIntent) ==
  /\ call' = [ op |-> "bestFieldForTie", tokens |-> tokens, index |-> indexOf[contact],
               tier |-> tier, numericIntent |-> numericIntent,
               bestField |-> bestFieldForTie(tokens, indexOf[contact], tier, numericIntent) ]
  /\ UNCHANGED << rows, indexCache, seen, edits, table, contactTypes >>

\* filterAndRank(contacts, query) on any arguments. The comparator is the
\* only reader of a name, so the tied pairs of SparseLists are all-null pairs.
SearchAny(contacts, query) ==
  Searched(contacts, query, filterAndRankAny(contacts, query, indexCache))

\* buildIndex(contact) called on its own, twice in a row.
BuildIndex(contact) ==
  /\ call' = [ op |-> "buildIndex", contact |-> contact, index |-> buildIndex(contact),
               again |-> buildIndex(contact), before |-> indexCache ]
  /\ UNCHANGED << rows, indexCache, seen, edits, table, contactTypes >>

\* normalizeText(str) called on its own, then on its result, then on that.
NormalizeText(str) ==
  /\ call' = [ op |-> "normalizeText", str |-> str, out |-> normalizeText(str),
               again |-> normalizeText(normalizeText(str)),
               third |-> normalizeText(normalizeText(normalizeText(str))) ]
  /\ UNCHANGED << rows, indexCache, seen, edits, table, contactTypes >>

\* The functions of the engine called one at a time on given arguments.
NextFunctions ==
  \/ \E contact \in IndexedContacts : BuildIndex(contact)
  \/ \E contacts \in SparseLists, query \in SparseQueries : SearchAny(contacts, query)
  \/ \E str \in RawTexts : NormalizeText(str)
  \/ \E tokens \in TokenLists, i \in 1..Len(rows), tier \in { 1, 2 }, numericIntent \in BOOLEAN :
        BestFieldForTie(tokens, rows[i], tier, numericIntent)

SpecFunctions == InitDirectory /\ [][NextFunctions]_vars

(***************************************************************************)
(* Table components                                                        *)
(***************************************************************************)

\* useState<SortState | null> holding null.
NullSort == [ key |-> "null", dir |-> "null" ]

SortState(key, dir) == [ key |-> key, dir |-> dir ]

\* The sort keys of the contact list's headers the rows are sorted on here;
\* the rows of the model have no city.
SortKeys == { "name", "email", "company", "city" }

\* The registered columns the rows of the model have.
ColumnKeys == { "name", "email", "phone", "company" }

\* What the user types in the search box of a table.
TableQueries ==
  { << >>, << "a", " ", "b" >>, << "5", "5", "5" >> }

\* The values the user ticks in the filter of the company column.
CompanyFilters == { { }, { << "2", "5", "5", "5", " ", "C", "o" >> } }

\* toggleSort without the unsorted state: descending goes back to ascending.
toggleSortTwoState(currentSort, key) ==
  IF currentSort = NullSort \/ currentSort.key # key THEN SortState(key, "asc")
  ELSE IF currentSort.dir = "asc" THEN SortState(key, "desc")
  ELSE SortState(key, "asc")

\* toggleSort(currentSort, key) of sort-utils
toggleSort(currentSort, key) ==
  IF currentSort = NullSort \/ currentSort.key # key THEN SortState(key, "asc")
  ELSE IF currentSort.dir = "asc" THEN SortState(key, "desc")
  ELSE NullSort

\* toggleSort(currentSort, key), the helper at the end of GlobalTable
tableToggleSort(currentSort, key) ==
  IF currentSort = NullSort \/ currentSort.key # key THEN SortState(key, "asc")
  ELSE IF currentSort.dir = "asc" THEN SortState(key, "desc")
  ELSE NullSort

\* The number of digits str starts with.
RECURSIVE DigitRun(_)
DigitRun(str) ==
  IF str = << >> THEN 0
  ELSE IF IsDigit(Head(str)) THEN 1 + DigitRun(Tail(str))
  ELSE 0

\* A run of digits without its leading zeros.
RECURSIVE StripZeros(_)
StripZeros(run) ==
  IF run = << >> THEN run
  ELSE IF Head(run) = "0" THEN StripZeros(Tail(run))
  ELSE run

\* Two runs of digits without leading zeros compared as numbers.
CompareNumbers(x, y) ==
  IF Len(x) # Len(y) THEN (IF Len(x) < Len(y) THEN 0 - 1 ELSE 1)
  ELSE localeCompare(x, y)

\* The numbers a and b start with, compared.
NumberOrder(a, b) ==
  CompareNumbers(StripZeros(SubSeq(a, 1, DigitRun(a))), StripZeros(SubSeq(b, 1, DigitRun(b))))

\* a.localeCompare(b, undefined, { sensitivity: 'base', numeric: true }):
\* as localeCompare, a run of digits counting as the number it writes.
RECURSIVE localeCompareNumeric(_, _)
localeCompareNumeric(a, b) ==
  IF a = << >> THEN (IF b = << >> THEN 0 ELSE 0 - 1)
  ELSE IF b = << >> THEN 1
  ELSE IF IsDigit(Head(a)) /\ IsDigit(Head(b))
       THEN IF NumberOrder(a, b) # 0 THEN NumberOrder(a, b)
            ELSE localeCompareNumeric(SubSeq(a, DigitRun(a) + 1, Len(a)),
                                      SubSeq(b, DigitRun(b) + 1, Len(b)))
       ELSE IF PrimaryWeight[Head(a)] # PrimaryWeight[Head(b)]
            THEN (IF PrimaryWeight[Head(a)] < PrimaryWeight[Head(b)] THEN 0 - 1 ELSE 1)
            ELSE localeCompareNumeric(Tail(a), Tail(b))

\* dir === 'desc' ? -result : result
Directed(result, dir) == IF dir = "desc" THEN 0 - result ELSE result

\* a?.trim() || null
TrimOrNull(str) ==
  IF str = Null THEN Null
  ELSE IF Trim(str) = << >> THEN Null
  ELSE Trim(str)

\* compareStrings(a, b, dir)
compareStrings(a, b, dir) ==
  IF TrimOrNull(a) = Null /\ TrimOrNull(b) = Null THEN 0
  ELSE IF TrimOrNull(a) = Null THEN 1
  ELSE IF TrimOrNull(b) = Null THEN 0 - 1
  ELSE Directed(localeCompareNumeric(TrimOrNull(a), TrimOrNull(b)), dir)

\* (row as any)[key]: undefined for a field the row does not have.
FieldValue(row, key) == IF key \in DOMAIN row THEN row[key] ELSE Null

\* getComparator(key, dir)(a, b)
getComparator(key, dir, a, b) ==
  IF dir = "null" THEN 0
  ELSE compareStrings(FieldValue(a, key), FieldValue(b, key), dir)

\* getColumnConfig(key).sortComparator
sortComparator(key) ==
  CASE key = "email" -> "emailLocal"
    [] key = "phone" -> "phoneDigits"
    [] OTHER -> "text"

\* The switch on columnConfig.sortComparator of the table's comparator.
compareValues(aValue, bValue, comparator) ==
  CASE comparator = "emailLocal" ->
         localeCompare(PartOrEmpty(Split(aValue, At, FALSE), 1),
                       PartOrEmpty(Split(bValue, At, FALSE), 1))
    [] comparator = "phoneDigits" ->
         localeCompareNumeric(SelectSeq(aValue, IsDigit), SelectSeq(bValue, IsDigit))
    [] OTHER -> localeCompareNumeric(aValue, bValue)

\* The comparator GlobalTable sorts its rows with on a column.
compareColumn(a, b, key, dir) ==
  IF FieldValue(a, key) = Null /\ FieldValue(b, key) = Null THEN 0
  ELSE IF FieldValue(a, key) = Null THEN 1
  ELSE IF FieldValue(b, key) = Null THEN 0 - 1
  ELSE Directed(compareValues(Trim(FieldValue(a, key)), Trim(FieldValue(b, key)),
                              sortComparator(key)), dir)

\* The comparator GlobalTable sorts its rows with when no sort is set.
compareNames(a, b) == localeCompare(Trim(OrEmpty(a.name)), Trim(OrEmpty(b.name)))

\* The comparators handed to Array.prototype.sort by the tables.
compareBy(by, a, b) ==
  CASE by.fn = "getComparator" -> getComparator(by.key, by.dir, a, b)
    [] by.fn = "column" -> compareColumn(a, b, by.key, by.dir)
    [] by.fn = "name" -> compareNames(a, b)

\* The positions of sorted whose row compares greater than x.
RowsGreaterThan(sorted, x, by) ==
  { i \in 1..Len(sorted) : compareBy(by, sorted[i], x) > 0 }

RECURSIVE SortRowsFrom(_, _, _)
SortRowsFrom(sorted, rest, by) ==
  IF rest = << >> THEN sorted
  ELSE SortRowsFrom(InsertAt(sorted, Head(rest),
                             FirstOf(RowsGreaterThan(sorted, Head(rest), by), Len(sorted) + 1)),
                    Tail(rest), by)

\* [...list].sort(comparator), a stable sort.
sortRows(list, by) == SortRowsFrom(<< >>, list, by)

By(fn, sort) == [ fn |-> fn, key |-> sort.key, dir |-> sort.dir ]

\* The test both tables make on the debounced query before they sort.
hasSearchQuery(debouncedSearchQuery) ==
  Len(Trim(debouncedSearchQuery)) >= 3 \/ CountDigits(debouncedSearchQuery) >= 3

\* processedContacts of ContactList; filtered is what filterAndRank(contacts,
\* debouncedSearchQuery) returned.
processedContacts(contacts, debouncedSearchQuery, sort, filtered) ==
  IF ~hasSearchQuery(debouncedSearchQuery)
  THEN IF sort # NullSort
       THEN sortRows(contacts, By("getComparator", sort))
       ELSE sortRows(contacts, By("getComparator", SortState("name", "asc")))
  ELSE IF sort # NullSort
       THEN sortRows(filtered, By("getComparator", sort))
       ELSE filtered

\* String(rawValue || '').trim()
CellValue(row, columnKey) == Trim(OrEmpty(FieldValue(row, columnKey)))

\* The rows every active column filter selects; columnFilters holds one
\* pair (column, selected values) per filtered column.
FilterRows(list, columnFilters) ==
  SelectSeq(list, LAMBDA row : \A f \in columnFilters : CellValue(row, f[1]) \in f[2])

\* processedRows of GlobalTable; ranked is what filterAndRank(rows,
\* debouncedSearchQuery) returned.
processedRows(ranked, debouncedSearchQuery, sort, columnFilters) ==
  IF ~hasSearchQuery(debouncedSearchQuery)
  THEN IF sort # NullSort
       THEN sortRows(FilterRows(ranked, columnFilters), By("column", sort))
       ELSE sortRows(FilterRows(ranked, columnFilters), By("name", NullSort))
  ELSE IF sort # NullSort
       THEN sortRows(FilterRows(ranked, columnFilters), By("column", sort))
       ELSE FilterRows(ranked, columnFilters)

\* The rows a table in state t displays when filterAndRank returned ranked.
Displayed(t, contacts, ranked) ==
  IF t.component = "ContactList"
  THEN processedContacts(contacts, t.debouncedSearchQuery, t.sort, ranked)
  ELSE processedRows(ranked, t.debouncedSearchQuery, t.sort, t.columnFilters)

\* No header was toggled yet.
NoStreak == [ key |-> "null", start |-> NullSort, count |-> 0 ]

\* The toggles of one key in a row, up to three: the key, the sort state
\* the first of them found, and how many they are.
Toggled(streak, key, currentSort) ==
  IF streak.key = key /\ streak.count < 3
  THEN [ streak EXCEPT !.count = @ + 1 ]
  ELSE [ key |-> key, start |-> currentSort, count |-> 1 ]

\* useState(...) of the component: ContactList starts sorted on the name,
\* GlobalTable unsorted.
InitialSort(component) ==
  IF component = "ContactList" THEN SortState("name", "asc") ELSE NullSort

\* The component after its first render of contacts, the search box empty.
Mounted(component, contacts) ==
  [ component |-> component, sort |-> InitialSort(component),
    searchQuery |-> << >>, debouncedSearchQuery |-> << >>, columnFilters |-> { },
    shown |-> Displayed([ component |-> component, sort |-> InitialSort(component),
                          debouncedSearchQuery |-> << >>, columnFilters |-> { } ],
                        contacts, contacts),
    clicked |-> FALSE, streak |-> NoStreak ]

\* The render after a state change to t: useMemo calls filterAndRank on the
\* rows and the debounced query, then filters and sorts what it returned.
Rendered(op, key, t, r) ==
  /\ table' = [ t EXCEPT !.shown = Displayed(t, rows, r.out) ]
  /\ indexCache' = r.cache
  /\ call' = [ op |-> op, key |-> key, currentSort |-> table.sort ]
  /\ seen' = IF r.path = "ranked" THEN Looked(seen, rows, r.served) ELSE seen
  /\ UNCHANGED << rows, edits, contactTypes >>

Render(op, key, t) ==
  Rendered(op, key, t, filterAndRank(rows, t.debouncedSearchQuery, indexCache))

\* The parent hands the table a new searchQuery; the debounced copy, on
\* which the rows depend, is not changed yet.
SetSearchQuery(query) ==
  /\ table.searchQuery # query
  /\ table' = [ table EXCEPT !.searchQuery = query ]
  /\ call' = [ op |-> "setSearchQuery", key |-> "null", currentSort |-> table.sort ]
  /\ UNCHANGED << rows, indexCache, seen, edits, contactTypes >>

\* useDebounce(searchQuery, 200): the delay has passed since the last change.
Debounce ==
  /\ table.debouncedSearchQuery # table.searchQuery
  /\ Render("useDebounce", "null", [ table EXCEPT !.debouncedSearchQuery = table.searchQuery ])

\* handleSortToggle(key) of ContactList: a click on a sort header.
HandleSortToggle(key) ==
  /\ table.component = "ContactList"
  /\ Render("toggleSort", key,
            [ table EXCEPT !.sort = toggleSort(table.sort, key), !.clicked = TRUE,
                           !.streak = Toggled(table.streak, key, table.sort) ])

\* handleSort(columnKey, direction) of GlobalTable: the direction picked in
\* the header's menu.
HandleSort(columnKey, direction) ==
  /\ table.component = "GlobalTable"
  /\ Render("handleSort", columnKey,
            [ table EXCEPT !.sort = SortState(columnKey, direction), !.clicked = TRUE,
                           !.streak = NoStreak ])

\* handleSort(columnKey) of GlobalTable, no direction given.
HandleSortNoDirection(columnKey) ==
  /\ table.component = "GlobalTable"
  /\ Render("toggleSort", columnKey,
            [ table EXCEPT !.sort = tableToggleSort(table.sort, columnKey), !.clicked = TRUE,
                           !.streak = Toggled(table.streak, columnKey, table.sort) ])

\* handleFilterChange(columnKey, selectedValues) of GlobalTable
HandleFilterChange(columnKey, selectedValues) ==
  /\ table.component = "GlobalTable"
  /\ Render("handleFilterChange", columnKey,
            [ table EXCEPT !.columnFilters =
                { f \in @ : f[1] # columnKey } \cup { << columnKey, selectedValues >> } ])

\* clearAllFilters() of GlobalTable
ClearAllFilters ==
  /\ table.component = "GlobalTable"
  /\ table.columnFilters # { }
  /\ Render("clearAllFilters", "null", [ table EXCEPT !.columnFilters = { } ])

InitTable ==
  /\ rows = DirectoryRows
  /\ indexCache = << >>
  /\ call = [ op |-> "none" ]
  /\ seen = << >>
  /\ edits = 0
  /\ table \in { Mounted("ContactList", DirectoryRows), Mounted("GlobalTable", DirectoryRows) }
  /\ contactTypes = SeedTypes

\* A table mounted on the directory: the user types, clicks headers and
\* sets filters.
NextTable ==
  \/ \E query \in TableQueries : SetSearchQuery(query)
  \/ Debounce
  \/ \E key \in SortKeys : HandleSortToggle(key)
  \/ \E columnKey \in ColumnKeys, direction \in { "asc", "desc" } : HandleSort(columnKey, direction)
  \/ \E columnKey \in ColumnKeys : HandleSortNoDirection(columnKey)
  \/ \E selectedValues \in CompanyFilters : HandleFilterChange("company", selectedValues)
  \/ ClearAllFilters

SpecTable == InitTable /\ [][NextTable]_vars

(***************************************************************************)
(* Operations on the contact types                                         *)
(***************************************************************************)

\* What a call on the contact types leaves in the storage.
Called(op, id, other, r) ==
  /\ contactTypes' = r.types
  /\ rows' = r.contacts
  /\ call' = [ op |-> op, id |-> id, other |-> other, returned |-> r.returned ]
  /\ UNCHANGED << indexCache, seen, edits, table >>

\* MemStorage.createContactType({ label, isActive })
CreateContactType(label, isActive) ==
  /\ Len(contactTypes) < MaxTypes
  /\ Called("createContactType", label, isActive,
            createContactType(contactTypes, rows, label, isActive))

\* MemStorage.updateContactType(id, { label, isActive })
UpdateContactType(id, label, isActive) ==
  Called("updateContactType", id, label,
         updateContactType(contactTypes, rows, id, label, isActive))

\* MemStorage.deleteContactType(id, { reassignToId })
DeleteContactType(id, reassignToId) ==
  Called("deleteContactType", id, reassignToId,
         deleteContactType(contactTypes, rows, id, reassignToId))

InitTypes ==
  /\ rows = TypedRows
  /\ indexCache = << >>
  /\ call = [ op |-> "none" ]
  /\ seen = << >>
  /\ edits = 0
  /\ table = NoTable
  /\ contactTypes = SeedTypes

\* The contact types created, renamed and deleted by the routes.
NextTypes ==
  \/ \E label \in TypeLabels, isActive \in { "undefined", "false" } :
        CreateContactType(label, isActive)
  \/ \E id \in UpdatedTypeIds, label \in TypeLabels \cup { Undefined },
        isActive \in { "undefined", "true" } :
        UpdateContactType(id, label, isActive)
  \/ \E id \in CalledTypeIds, reassignToId \in CalledTypeIds \cup { Undefined } :
        DeleteContactType(id, reassignToId)

SpecTypes == InitTypes /\ [][NextTypes]_vars

(***************************************************************************)
(* Properties of the index cache                                           *)
(***************************************************************************)

\* The last call was getMemoizedIndex on a contact whose id had been looked
\* up before.
LookedUpAgain ==
  /\ call.op = "getMemoizedIndex"
  /\ call.contact.id \in DOMAIN call.seenBefore

\* The contact and the index of the previous lookup of the same id.
EarlierLookup == call.seenBefore[call.contact.id]

\* Some searchable field differs between two versions of a contact.
SearchableFieldChanged(old, new) == \E field \in Fields : old[field] # new[field]

\* The record id a cache key was made from: the text before its last colon.
KeyRecordId(key) ==
  SubSeq(key, 1, (CHOOSE i \in 1..Len(key) :
                    key[i] = ":" /\ \A j \in (i + 1)..Len(key) : key[j] # ":") - 1)

\* C1 as stated: after a searchable field of the record changed since the
\* last getMemoizedIndex for its id, getMemoizedIndex returns a different
\* (newly built) index, equal to buildIndex of the current values, and the
\* entry of the earlier lookup is gone from the cache.
C1_AnyFieldChangeRebuilds ==
  (LookedUpAgain /\ SearchableFieldChanged(EarlierLookup.contact, call.contact))
    => /\ ~call.hit
       /\ call.index = buildIndex(call.contact)
       /\ \/ EarlierLookup.cleared
          \/ \A i \in 1..Len(indexCache) : KeyRecordId(indexCache[i].key) = call.contact.id
                                             => indexCache[i].index = call.index

\* C1 amended: when the cache key (id and fingerprint) of the record differs
\* from its key at the last getMemoizedIndex for that id, the call is a miss:
\* it returns buildIndex of the current values, stores it under the new key,
\* and the earlier key is gone from the cache.
C1_KeyChangeRebuilds ==
  (LookedUpAgain /\ getCacheKey(EarlierLookup.contact) # getCacheKey(call.contact))
    => /\ ~call.hit
       /\ call.index = buildIndex(call.contact)
       /\ getCacheKey(call.contact) \in CacheKeys(indexCache)
       /\ getCacheKey(EarlierLookup.contact) \notin CacheKeys(indexCache)

\* C1 witness: a lookup after an edit that changed the key, with the entry of
\* the earlier lookup still cached when the call was made.
C1_Witness ==
  /\ LookedUpAgain
  /\ getCacheKey(EarlierLookup.contact) # getCacheKey(call.contact)
  /\ getCacheKey(EarlierLookup.contact) \in CacheKeys(call.before)
  /\ call.index = buildIndex(call.contact)

\* C2: getMemoizedIndex on a record unchanged since its last lookup (and no
\* clearIndexCache in between) is a hit: it returns the index of that lookup,
\* builds nothing, and leaves the cache, its keys and their order, as it was.
C2_UnchangedRecordHits ==
  (LookedUpAgain /\ ~EarlierLookup.cleared /\ EarlierLookup.contact = call.contact)
    => /\ call.hit
       /\ call.index = EarlierLookup.index
       /\ indexCache = call.before
       /\ Len(indexCache) = Len(call.before)
       /\ \A i \in 1..Len(indexCache) : indexCache[i].key = call.before[i].key

\* C2 witness: a second lookup of an unchanged record, made while the cache
\* also holds the entry of another contact.
C2_Witness ==
  /\ LookedUpAgain
  /\ ~EarlierLookup.cleared
  /\ EarlierLookup.contact = call.contact
  /\ call.hit
  /\ Len(indexCache) >= 2

\* C3: the cache never holds two entries of one record id, and after a miss
\* the only entry of the record's id is the one just built.
C3_OneEntryPerRecord ==
  /\ \A i, j \in 1..Len(indexCache) :
        KeyRecordId(indexCache[i].key) = KeyRecordId(indexCache[j].key) => i = j
  /\ (call.op = "getMemoizedIndex" /\ ~call.hit)
       => /\ \E i \in 1..Len(indexCache) :
                /\ indexCache[i].key = getCacheKey(call.contact)
                /\ indexCache[i].index = call.index
          /\ \A i \in 1..Len(indexCache) :
                KeyRecordId(indexCache[i].key) = call.contact.id
                  => indexCache[i].key = getCacheKey(call.contact)

\* C3 witness: a miss that found a stale entry of the same record id in the
\* cache and evicted it.
C3_Witness ==
  /\ call.op = "getMemoizedIndex"
  /\ ~call.hit
  /\ \E i \in 1..Len(call.before) : KeyRecordId(call.before[i].key) = call.contact.id
  /\ Len(indexCache) = Len(call.before)

\* C15: after clearIndexCache the cache has no entry, whatever it held, and
\* the next getMemoizedIndex of any record is a miss that builds the index
\* anew and stores it, leaving exactly one entry.
C15_ClearEmptiesTheCache ==
  /\ call.op = "clearIndexCache" => (indexCache = << >> /\ CacheKeys(indexCache) = { })
  /\ (call.op = "getMemoizedIndex" /\ call.before = << >>)
       => /\ ~call.hit
          /\ call.index = buildIndex(call.contact)
          /\ indexCache = << [ key |-> getCacheKey(call.contact), index |-> call.index ] >>

\* C15 witness: a record looked up, the cache cleared, the unchanged record
\* looked up again: a miss, one entry.
C15_Witness ==
  /\ LookedUpAgain
  /\ EarlierLookup.cleared
  /\ EarlierLookup.contact = call.contact
  /\ call.before = << >>
  /\ ~call.hit
  /\ Len(indexCache) = 1

(***************************************************************************)
(* Properties of the ranking pipeline                                      *)
(***************************************************************************)

\* The last call was filterAndRank, on a list of rows or on its own result.
RankCall == call.op \in { "filterAndRank", "filterAndRank again" }

\* The last call was filterAndRank and it classified and sorted.
RankedCall == RankCall /\ call.path = "ranked"

CallTokens == tokenize(call.query)

\* The position of a record in the list handed to the last call.
InputPosition(contact) == CHOOSE i \in 1..Len(call.records) : call.records[i] = contact

\* The index getMemoizedIndex served for a record during the last call.
ServedIndex(contact) == call.served[InputPosition(contact)]

\* Counts on the trimmed query, character by character.
NonSpaceCount(query) ==
  Cardinality({ i \in 1..Len(Trim(query)) : Trim(query)[i] # " " })

DigitCount(query) ==
  Cardinality({ i \in 1..Len(Trim(query)) : Trim(query)[i] \in Digits })

\* C4: a query with fewer than 3 non-whitespace characters and fewer than 3
\* digits is returned the input list itself, every record in its original
\* order; a query with 3 or more of either is not stopped by the gate.
C4_MinimumLengthGate ==
  RankCall =>
    IF NonSpaceCount(call.query) < 3 /\ DigitCount(call.query) < 3
    THEN call.path = "gate" /\ call.out = call.records
    ELSE call.path # "gate"

\* C4 witness: the two-digit query "55" came back unchanged, and so did the
\* whitespace-padded query " a m ".
C4_Witness ==
  /\ RankCall
  /\ call.query \in { << "5", "5" >>, << " ", "a", " ", "m", " " >> }
  /\ call.path = "gate"
  /\ call.out = call.records
  /\ Len(call.records) = 3

\* C5: when the query passes the gate and has a token, the returned list holds
\* exactly the input records whose classifyMatch result (on the index served
\* for them) is not null, each once, nothing else; the records handed in are
\* still the rows of the store, unmodified.
C5_ExactlyTheMatches ==
  RankedCall =>
    /\ \A i \in 1..Len(call.records) :
          Cardinality({ k \in 1..Len(call.out) : call.out[k] = call.records[i] })
            = IF classifyMatch(CallTokens, call.served[i]) # NullTier THEN 1 ELSE 0
    /\ \A k \in 1..Len(call.out) : \E i \in 1..Len(call.records) : call.out[k] = call.records[i]
    /\ \A i \in 1..Len(call.records) : \E j \in 1..Len(rows) : rows[j] = call.records[i]

\* C5 witness: a ranked call that kept two records of three, one of them a
\* substring-only match.
C5_Witness ==
  /\ RankedCall
  /\ call.op = "filterAndRank"
  /\ Len(call.out) = 2
  /\ Len(call.records) = 3
  /\ \E i \in 1..3 : classifyMatch(CallTokens, call.served[i]) = 2

\* The strings a token may be a prefix of, and those it may occur in.
PrefixTargets(token, index) ==
  { index.nameWords[i] : i \in 1..Len(index.nameWords) }
    \cup { index.companyWords[i] : i \in 1..Len(index.companyWords) }
    \cup { index.emailLocal, index.emailDomain }
    \cup (IF \A i \in 1..Len(token) : token[i] \in Digits THEN { index.phoneDigits } ELSE { })

SubstringTargets(index) ==
  { index.nameFull, index.emailLocal, index.emailDomain, index.phoneDigits }
    \cup { index.companyWords[i] : i \in 1..Len(index.companyWords) }

TokenHasPrefixHit(token, index) ==
  \E str \in PrefixTargets(token, index) :
     Len(token) <= Len(str) /\ SubSeq(str, 1, Len(token)) = token

TokenOccurs(token, index) ==
  \E str \in SubstringTargets(index) :
     \E at \in 0..(Len(str) - Len(token)) : SubSeq(str, at + 1, at + Len(token)) = token

TokenMatches(token, index) == TokenHasPrefixHit(token, index) \/ TokenOccurs(token, index)

\* C6: classifyMatch returns null exactly when some token has neither a
\* prefix hit nor a substring occurrence in any field: a record matches only
\* when every token matches somewhere.
C6_NullIffSomeTokenMisses ==
  RankedCall =>
    \A i \in 1..Len(call.served) :
       (classifyMatch(CallTokens, call.served[i]) = NullTier)
         <=> \E t \in 1..Len(CallTokens) : ~TokenMatches(CallTokens[t], call.served[i])

\* C6 witness: a two-token query of which one token matches a record and the
\* other does not, and the record was classified null.
C6_Witness ==
  /\ RankedCall
  /\ Len(CallTokens) = 2
  /\ \E i \in 1..Len(call.served) :
        /\ TokenMatches(CallTokens[1], call.served[i])
        /\ ~TokenMatches(CallTokens[2], call.served[i])
        /\ classifyMatch(CallTokens, call.served[i]) = NullTier

\* C7: when every token matches, classifyMatch returns tier 1 exactly when at
\* least one token, any of them, has a prefix hit, and tier 2 when all the
\* matches are substring-only.
C7_TierOneIffAnyPrefix ==
  RankedCall =>
    \A i \in 1..Len(call.served) :
       (\A t \in 1..Len(CallTokens) : TokenMatches(CallTokens[t], call.served[i]))
         => classifyMatch(CallTokens, call.served[i])
              = IF \E t \in 1..Len(CallTokens) : TokenHasPrefixHit(CallTokens[t], call.served[i])
                THEN 1 ELSE 2

\* C7 witness: a record at tier 1 although the first of the two tokens only
\* occurs as a substring, next to a record the same query does not match.
C7_Witness ==
  /\ RankedCall
  /\ Len(CallTokens) = 2
  /\ \E i \in 1..Len(call.served) :
        /\ ~TokenHasPrefixHit(CallTokens[1], call.served[i])
        /\ TokenOccurs(CallTokens[1], call.served[i])
        /\ TokenHasPrefixHit(CallTokens[2], call.served[i])
        /\ classifyMatch(CallTokens, call.served[i]) = 1
  /\ \E i \in 1..Len(call.served) : classifyMatch(CallTokens, call.served[i]) = NullTier

\* The sort key of a returned record: tier, rank of its best field under the
\* intent of the query, and its name.
KeyTier(contact) == classifyMatch(CallTokens, ServedIndex(contact))

FieldOrder ==
  IF \E t \in 1..Len(CallTokens) :
        Len(CallTokens[t]) >= 3 /\ \A d \in 1..3 : CallTokens[t][d] \in Digits
  THEN << "phone", "name", "email", "company" >>
  ELSE << "name", "email", "company", "phone" >>

KeyField(contact) ==
  CHOOSE p \in 1..4 :
    FieldOrder[p] = bestFieldForTie(CallTokens, ServedIndex(contact), KeyTier(contact),
                                    FieldOrder[1] = "phone")

NameOrder(a, b) == localeCompare(a.name, b.name)

KeyNotGreater(a, b) ==
  \/ KeyTier(a) < KeyTier(b)
  \/ /\ KeyTier(a) = KeyTier(b)
     /\ \/ KeyField(a) < KeyField(b)
        \/ KeyField(a) = KeyField(b) /\ NameOrder(a, b) <= 0

KeyTie(a, b) ==
  KeyTier(a) = KeyTier(b) /\ KeyField(a) = KeyField(b) /\ NameOrder(a, b) = 0

\* C8: in the list filterAndRank returns, each record is not greater than the
\* next under the key (tier, best-field priority for the intent, name without
\* case): no tier-2 record precedes a tier-1 record.
C8_OutputOrdered ==
  RankedCall =>
    /\ \A k \in 1..(Len(call.out) - 1) : KeyNotGreater(call.out[k], call.out[k + 1])
    /\ \A k, l \in 1..Len(call.out) : k < l => KeyTier(call.out[k]) <= KeyTier(call.out[l])

\* C8 witness: a returned list that differs from the order of the matches in
\* the input and holds records of both tiers, or of two best fields.
C8_Witness ==
  /\ RankedCall
  /\ Len(call.out) = 3
  /\ call.out # call.records
  /\ \/ KeyTier(call.out[1]) # KeyTier(call.out[3])
     \/ KeyField(call.out[1]) # KeyField(call.out[3])

\* C9: two returned records that tie on tier, best-field priority and name
\* without case are in the same relative order as in the input list.
C9_StableOnTies ==
  RankedCall =>
    \A k, l \in 1..Len(call.out) :
       (k < l /\ KeyTie(call.out[k], call.out[l]))
         => InputPosition(call.out[k]) < InputPosition(call.out[l])

\* C9 witness: two records that tie were returned, with a record between
\* them in the input list.
C9_Witness ==
  /\ RankedCall
  /\ \E k, l \in 1..Len(call.out) :
        /\ k < l
        /\ KeyTie(call.out[k], call.out[l])
        /\ call.out[k].name # call.out[l].name
        /\ InputPosition(call.out[l]) = InputPosition(call.out[k]) + 2

\* C10: filterAndRank applied to its own result with the same query returns
\* the same records in the same order.
C10_RankingIsIdempotent ==
  call.op = "filterAndRank again" => call.out = call.first

\* C10 witness: a second pass over a result the first pass had filtered and
\* reordered, with two records that tie in it.
C10_Witness ==
  /\ call.op = "filterAndRank again"
  /\ call.path = "ranked"
  /\ Len(call.out) >= 2
  /\ call.out = call.first
  /\ \E k, l \in 1..Len(call.out) : k < l /\ KeyTie(call.out[k], call.out[l])

(***************************************************************************)
(* Properties of searches in the directory                                 *)
(***************************************************************************)

\* Some token of the last query starts with three digits.
StartsNumeric == \E t \in 1..Len(CallTokens) :
                   Len(CallTokens[t]) >= 3 /\ \A d \in 1..3 : CallTokens[t][d] \in Digits

\* The sorted result at position k has the given tier and one of the fields.
ResultIs(k, tier, fields) ==
  call.results[k].tier = tier /\ call.results[k].bestField \in fields

OnlySeparators(query) ==
  \A i \in 1..Len(query) :
     query[i] \notin (UpperCase \cup LowerCase \cup Digits \cup { "@" })

\* C14: a query that passes the gate but holds no token (separators and
\* stripped characters only) gets the input list back unchanged, and the
\* call looks no index up: the cache is as it was.
C14_NoTokensNoLookup ==
  (RankCall /\ ~(NonSpaceCount(call.query) < 3 /\ DigitCount(call.query) < 3)
     /\ OnlySeparators(call.query))
    => /\ call.path = "no tokens"
       /\ call.out = call.records
       /\ call.served = << >>
       /\ indexCache = call.before

\* C14 witness: "!!!" and "_._" came back unchanged with indexes in the
\* cache, on a list that is not in the order a ranking would give.
C14_Witness ==
  /\ RankCall
  /\ call.query \in { << "!", "!", "!" >>, << "_", ".", "_" >> }
  /\ call.path = "no tokens"
  /\ call.out = call.records
  /\ call.records[1].name = << "Z", "e", "d" >>
  /\ Len(call.before) = 5
  /\ indexCache = call.before

\* tokens with its i-th token repeated at position at.
Repeated(tokens, i, at) ==
  SubSeq(tokens, 1, at - 1) \o << tokens[i] >> \o SubSeq(tokens, at, Len(tokens))

\* The query with one of its tokens typed once more at its end.
RepeatedQuery(query, token) == query \o << " " >> \o token

\* classifyMatch and bestFieldForTie do not tell tokens from the same
\* tokens with one repeated, for the index of any record of the last call.
TokensRepeatUnseen(tokens) ==
  \A r \in 1..Len(call.records) : \A i \in 1..Len(tokens) : \A at \in 1..(Len(tokens) + 1) :
     /\ classifyMatch(Repeated(tokens, i, at), indexOf[call.records[r]])
          = classifyMatch(tokens, indexOf[call.records[r]])
     /\ \A tier \in { 1, 2 } : \A numericIntent \in BOOLEAN :
          bestFieldForTie(Repeated(tokens, i, at), indexOf[call.records[r]], tier, numericIntent)
            = bestFieldForTie(tokens, indexOf[call.records[r]], tier, numericIntent)

\* filterAndRank returns the list of the last call for its query with any
\* one token repeated.
QueryRepeatUnseen ==
  \A i \in 1..Len(CallTokens) :
     filterAndRank(call.records, RepeatedQuery(call.query, CallTokens[i]), indexCache).out
       = call.out

\* C16 as stated: repeated tokens are not observable, in classifyMatch and
\* bestFieldForTie, nor in the list filterAndRank returns for any query.
C16_RepeatUnseenInAnyQuery ==
  RankCall => (TokensRepeatUnseen(CallTokens) /\ QueryRepeatUnseen)

\* C16 amended: repeated tokens are not observable in classifyMatch and
\* bestFieldForTie, and filterAndRank returns the same list for a query
\* that passes the minimum-length gate and for it with a token repeated.
C16_RepeatUnseenPastTheGate ==
  RankCall =>
    /\ TokensRepeatUnseen(CallTokens)
    /\ call.path # "gate" => QueryRepeatUnseen

\* C16 witness: a two-token query ranked three records or more, and ranks
\* them alike with its second token repeated.
C16_Witness ==
  /\ RankedCall
  /\ Len(CallTokens) = 2
  /\ Len(call.out) >= 3
  /\ call.out # call.records
  /\ filterAndRank(call.records, RepeatedQuery(call.query, CallTokens[2]), indexCache).out
       = call.out

(***************************************************************************)
(* Properties of the functions called on their own                         *)
(***************************************************************************)

\* The strings of an index a field's condition looks at, at a tier.
FieldTargets(field, index, tier) ==
  CASE field = "name" ->
         IF tier = 1 THEN { index.nameWords[i] : i \in 1..Len(index.nameWords) }
         ELSE { index.nameFull }
    [] field = "email" -> { index.emailLocal, index.emailDomain }
    [] field = "company" -> { index.companyWords[i] : i \in 1..Len(index.companyWords) }
    [] field = "phone" -> { index.phoneDigits }

\* token satisfies field's condition at tier: a prefix at tier 1, an
\* occurrence at tier 2, the phone only for a token of digits.
Satisfies(field, token, index, tier) ==
  /\ field = "phone" => \A i \in 1..Len(token) : token[i] \in Digits
  /\ \E str \in FieldTargets(field, index, tier) :
        \E at \in (IF tier = 1 THEN { 0 } ELSE 0..(Len(str) - Len(token))) :
           /\ at + Len(token) <= Len(str)
           /\ SubSeq(str, at + 1, at + Len(token)) = token

IntentOrder(numericIntent) ==
  IF numericIntent THEN << "phone", "name", "email", "company" >>
  ELSE << "name", "email", "company", "phone" >>

\* The positions of the intent's order whose field some token satisfies.
SatisfiedAt(tokens, index, tier, numericIntent) ==
  { p \in 1..4 : \E t \in 1..Len(tokens) :
                   Satisfies(IntentOrder(numericIntent)[p], tokens[t], index, tier) }

\* C12: bestFieldForTie returns the first field of the intent's order for
\* which some token satisfies the field's condition at the tier, and name
\* when no field is satisfied.
C12_FirstSatisfiedField ==
  call.op = "bestFieldForTie" =>
    IF SatisfiedAt(call.tokens, call.index, call.tier, call.numericIntent) = { }
    THEN call.bestField = "name"
    ELSE \E p \in SatisfiedAt(call.tokens, call.index, call.tier, call.numericIntent) :
           /\ call.bestField = IntentOrder(call.numericIntent)[p]
           /\ \A q \in SatisfiedAt(call.tokens, call.index, call.tier, call.numericIntent) :
                 p <= q

\* C12 witness: under numeric intent the phone was returned for an index
\* whose company is satisfied too.
C12_Witness ==
  /\ call.op = "bestFieldForTie"
  /\ call.numericIntent
  /\ call.bestField = "phone"
  /\ 4 \in SatisfiedAt(call.tokens, call.index, call.tier, call.numericIntent)

\* C13: filterAndRank raises no exception whatever it is given: a null
\* query, a null or empty records list, records with null fields, two
\* matching records with a null name that tie on tier and bestField; every
\* call returns the full input or a filtered list.
C13_NeverRaises ==
  (call.op = "filterAndRank" /\ call.records \in SparseLists)
    => /\ call.path # "TypeError"
       /\ call.records # NullList =>
             \A k \in 1..Len(call.out) : \E i \in 1..Len(call.records) :
                call.out[k] = call.records[i]

\* What raises: the null query, the null list once the query has a token,
\* and the tie of two null names. Every other call returns.
C13_RaisesOnlyOnNull ==
  (call.op = "filterAndRank" /\ call.records \in SparseLists) =>
    (call.path = "TypeError"
       <=> \/ call.query = Null
           \/ /\ call.query # Null
              /\ ~(NonSpaceCount(call.query) < 3 /\ DigitCount(call.query) < 3)
              /\ tokenize(call.query) # << >>
              /\ \/ call.records = NullList
                 \/ /\ call.records # NullList
                    /\ \E i, j \in 1..Len(call.records) :
                          /\ i # j
                          /\ call.records[i].name = Null
                          /\ call.records[j].name = Null
                          /\ classifyMatch(CallTokens, buildIndex(call.records[i])) # NullTier
                          /\ classifyMatch(CallTokens, buildIndex(call.records[i]))
                               = classifyMatch(CallTokens, buildIndex(call.records[j]))
                          /\ \A numeric \in { StartsNumeric } :
                                bestFieldForTie(CallTokens, buildIndex(call.records[i]),
                                                classifyMatch(CallTokens, buildIndex(call.records[i])),
                                                numeric)
                                  = bestFieldForTie(CallTokens, buildIndex(call.records[j]),
                                                    classifyMatch(CallTokens, buildIndex(call.records[i])),
                                                    numeric))

\* C13 witness: the query "amy" on two records with a null name and the
\* same email raised in the comparator, after both indexes had been cached.
C13_Witness ==
  /\ call.op = "filterAndRank"
  /\ call.records = << SparseRows[1], SparseRows[2] >>
  /\ call.query = << "a", "m", "y" >>
  /\ call.path = "TypeError"
  /\ Len(indexCache) >= 2

\* The normalized email of the record buildIndex was last called on.
CallEmail == normalizeText(call.contact.email)

\* The positions of '@' in the normalized email.
AtSigns == { i \in 1..Len(CallEmail) : CallEmail[i] = "@" }

FirstAt == CHOOSE i \in AtSigns : \A j \in AtSigns : i <= j

\* C17: buildIndex splits the normalized email on the first '@': emailLocal
\* is what precedes it and emailDomain all that follows it, so that local,
\* '@' and domain make up the email again, also with more than one '@';
\* without '@' emailLocal is the whole email and emailDomain is empty.
C17_SplitOnFirstAt ==
  call.op = "buildIndex" =>
    IF AtSigns = { }
    THEN call.index.emailLocal = CallEmail /\ call.index.emailDomain = << >>
    ELSE /\ call.index.emailLocal = SubSeq(CallEmail, 1, FirstAt - 1)
         /\ call.index.emailDomain = SubSeq(CallEmail, FirstAt + 1, Len(CallEmail))
         /\ call.index.emailLocal \o << "@" >> \o call.index.emailDomain = CallEmail

\* What buildIndex does: emailLocal is what precedes the first '@', and
\* emailDomain what lies between the first '@' and the second, or the end.
C17_DomainEndsAtSecondAt ==
  call.op = "buildIndex" =>
    IF AtSigns = { }
    THEN call.index.emailLocal = CallEmail /\ call.index.emailDomain = << >>
    ELSE /\ call.index.emailLocal = SubSeq(CallEmail, 1, FirstAt - 1)
         /\ \E end \in (AtSigns \ { FirstAt }) \cup { Len(CallEmail) + 1 } :
               /\ \A i \in AtSigns \ { FirstAt } : end <= i
               /\ call.index.emailDomain = SubSeq(CallEmail, FirstAt + 1, end - 1)

\* C17 witness: an email with two '@' was indexed and its domain cut at the
\* second.
C17_Witness ==
  /\ call.op = "buildIndex"
  /\ Cardinality(AtSigns) = 2
  /\ call.index.emailLocal = << "a" >>
  /\ call.index.emailDomain = << "b" >>

\* C18: buildIndex is a function of name, email, company and phone alone:
\* records equal in these four fields, whatever their id, get equal
\* indexes; a second call on the unchanged record gives an equal index, and
\* the calls change neither the record nor the cache.
C18_IndexOfFourFieldsOnly ==
  call.op = "buildIndex" =>
    /\ \A other \in IndexedContacts :
          (\A field \in Fields : other[field] = call.contact[field])
            => buildIndex(other) = call.index
    /\ call.again = call.index
    /\ call.contact \in IndexedContacts
    /\ indexCache = call.before

\* C18 witness: buildIndex on the record under its second id, with indexes
\* of other records in the cache.
C18_Witness ==
  /\ call.op = "buildIndex"
  /\ call.contact.id = << "u", "2" >>
  /\ call.contact.phone # Null
  /\ call.index = buildIndex([ call.contact EXCEPT !.id = << "u", "1" >> ])
  /\ Len(indexCache) >= 2

(***************************************************************************)
(* Properties of the table components                                      *)
(***************************************************************************)

\* A search is active in the mounted table.
SearchActive == table.component # "none" /\ hasSearchQuery(table.debouncedSearchQuery)

\* What filterAndRank returns for the table's rows and debounced query, in
\* its order, the rows the column filters reject left out.
RelevanceOrder ==
  FilterRows(filterAndRank(rows, table.debouncedSearchQuery, indexCache).out,
             table.columnFilters)

\* The comparator of the mounted table on its sort state.
ColumnOrder ==
  By(IF table.component = "ContactList" THEN "getComparator" ELSE "column", table.sort)

\* C19: in the contact list and the global table, while a search is active
\* and the user has clicked no sort header, the rows displayed are in the
\* relevance order filterAndRank returned; a column sort replaces it only
\* after the user selects one.
C19_RelevanceUntilSortChosen ==
  (SearchActive /\ ~table.clicked) => table.shown = RelevanceOrder

\* C19, what the components do: the relevance order is displayed exactly
\* while the sort state is null, which the global table starts with and the
\* contact list does not: it starts sorted on the name, ascending, and
\* displays a search in that order until the name header is toggled twice.
C19_RelevanceWhileUnsorted ==
  /\ (SearchActive /\ table.sort = NullSort) => table.shown = RelevanceOrder
  /\ (SearchActive /\ table.sort # NullSort) =>
        table.shown = sortRows(RelevanceOrder, ColumnOrder)
  /\ (table.component = "GlobalTable" /\ ~table.clicked) => table.sort = NullSort
  /\ (table.component = "ContactList" /\ ~table.clicked) =>
        table.sort = SortState("name", "asc")

\* The contact list displays a search by name, not by relevance, before any
\* header was clicked.
C19_Witness ==
  /\ SearchActive
  /\ table.component = "ContactList"
  /\ ~table.clicked
  /\ table.shown # RelevanceOrder
  /\ table.shown = sortRows(RelevanceOrder, By("getComparator", SortState("name", "asc")))

\* The sort state is null or a key with a direction.
SortIsNullOrPair ==
  \/ table.sort = NullSort
  \/ /\ table.sort.key \in SortKeys \cup ColumnKeys
     /\ table.sort.dir \in { "asc", "desc" }

\* C20: toggleSort on key k gives {k, asc} from no sort or a sort on
\* another key, {k, desc} from {k, asc} and no sort from {k, desc}; three
\* toggles of one key in a row that start from no sort end in no sort; the
\* sort state is always null or a key with asc or desc.
C20_ToggleSortCycles ==
  table.component # "none" =>
    /\ SortIsNullOrPair
    /\ call.op = "toggleSort" =>
         /\ (call.currentSort = NullSort \/ call.currentSort.key # call.key) =>
               table.sort = SortState(call.key, "asc")
         /\ call.currentSort = SortState(call.key, "asc") =>
               table.sort = SortState(call.key, "desc")
         /\ call.currentSort = SortState(call.key, "desc") => table.sort = NullSort
    /\ (table.streak.count = 3 /\ table.streak.start = NullSort) => table.sort = NullSort

\* Three toggles of one key in a row from no sort have been made.
C20_Witness ==
  /\ table.component # "none"
  /\ call.op = "toggleSort"
  /\ table.streak.count = 3
  /\ table.streak.start = NullSort
  /\ call.currentSort = SortState(call.key, "desc")
  /\ table.sort = NullSort

(***************************************************************************)
(* Properties of the contact types                                         *)
(***************************************************************************)

\* Some contact's contactType is the label up to case.
UsedBy(contacts, label) ==
  \E i \in 1..Len(contacts) :
     /\ contacts[i].contactType # Null
     /\ ToLowerCase(contacts[i].contactType) = ToLowerCase(label)

\* Some contact has no contactType.
SomeUntyped(contacts) == \E i \in 1..Len(contacts) : contacts[i].contactType = Null

\* The step is a deleteContactType call that returns false and changes
\* neither a contact nor a contact type.
DeleteRefused ==
  /\ call'.returned = FALSE
  /\ UNCHANGED << rows, contactTypes >>

\* The step is a deleteContactType call that returns true and leaves the
\* type in place, inactive.
DeleteDone ==
  /\ call'.returned = TRUE
  /\ Len(contactTypes') = Len(contactTypes)
  /\ \A i \in 1..Len(contactTypes) :
        contactTypes'[i] = IF contactTypes[i].id = call'.id
                           THEN [ contactTypes[i] EXCEPT !.isActive = FALSE ]
                           ELSE contactTypes[i]

\* No usable replacement is named by the call.
NoReplacement ==
  \/ call'.other = Undefined
  \/ TypeAt(contactTypes, call'.other) = 0

\* C21: deleteContactType returns false and changes nothing when the id is
\* unknown, or when a contact's contactType equals the type's label up to
\* case and no existing type is named by reassignToId; otherwise it returns
\* true and the type is kept with isActive false.
C21_DeleteRequiresReassignment ==
  [][ call'.op = "deleteContactType" =>
        IF TypeAt(contactTypes, call'.id) = 0 THEN DeleteRefused
        ELSE IF UsedBy(rows, contactTypes[TypeAt(contactTypes, call'.id)].label) /\ NoReplacement
             THEN DeleteRefused
             ELSE DeleteDone ]_vars

\* The type is in use as deleteContactType counts it: a contact with no
\* contactType counts as a contact of the type whose label is empty.
CountedInUse(contacts, label) ==
  UsedBy(contacts, label) \/ (label = << >> /\ SomeUntyped(contacts))

\* C21, what the storage does: the same three cases, a type with the empty
\* label being in use as soon as a contact has no contactType.
C21_DeleteCountsUntypedContacts ==
  [][ call'.op = "deleteContactType" =>
        IF TypeAt(contactTypes, call'.id) = 0 THEN DeleteRefused
        ELSE IF CountedInUse(rows, contactTypes[TypeAt(contactTypes, call'.id)].label)
                /\ NoReplacement
             THEN DeleteRefused
             ELSE DeleteDone ]_vars

\* deleteContactType returned false for a type that exists and that no
\* contact's contactType names: the type labelled with the empty string.
C21_Witness ==
  /\ call.op = "deleteContactType"
  /\ call.returned = FALSE
  /\ call.other = Undefined
  /\ TypeAt(contactTypes, call.id) # 0
  /\ ~UsedBy(rows, contactTypes[TypeAt(contactTypes, call.id)].label)
  /\ contactTypes[TypeAt(contactTypes, call.id)].label = << >>
  /\ SomeUntyped(rows)

\* No two contact types have the same label up to case and outer spaces.
LabelsUnique ==
  \A i, j \in 1..Len(contactTypes) :
     ToLowerCase(Trim(contactTypes[i].label)) = ToLowerCase(Trim(contactTypes[j].label)) => i = j

\* C29: after any sequence of createContactType, updateContactType and
\* deleteContactType calls no two contact types have labels that are equal
\* up to case, after trimming.
C29_LabelsUnique == LabelsUnique

\* The step is a createContactType call whose label an existing type has: no
\* type is added, the first type so labelled is active and its id returned.
CreateFoundExisting ==
  /\ Len(contactTypes') = Len(contactTypes)
  /\ call'.returned = contactTypes[TypeLabelled(contactTypes, Trim(call'.id))].id
  /\ contactTypes' =
       [ contactTypes EXCEPT ![TypeLabelled(contactTypes, Trim(call'.id))].isActive = TRUE ]

\* C29, what the storage does: createContactType on the label of an
\* existing type adds nothing, reactivates that type and returns it, and
\* neither it nor deleteContactType makes two labels equal; updateContactType
\* stores the label it is given and can.
C29_OnlyUpdateDuplicates ==
  [][ /\ (call'.op = "createContactType" /\ TypeLabelled(contactTypes, Trim(call'.id)) # 0) =>
           CreateFoundExisting
      /\ (call'.op # "updateContactType" /\ LabelsUnique) => LabelsUnique' ]_vars

\* updateContactType was given a label and has given a type the label of
\* another type.
C29_Witness ==
  /\ call.op = "updateContactType"
  /\ call.returned # Undefined
  /\ call.other # Undefined
  /\ \E i \in 1..Len(contactTypes) :
        /\ contactTypes[i].id # call.id
        /\ ToLowerCase(contactTypes[i].label) = ToLowerCase(Trim(call.other))

\* The label of the type the last call was made on.
CalledLabel == contactTypes[TypeAt(contactTypes, call.id)].label

\* The last call was a deleteContactType that returned true.
Deleted == call.op = "deleteContactType" /\ call.returned = TRUE

\* C30: after deleteContactType returned true no contact's contactType
\* equals the deleted type's label up to case, whatever reassignToId was,
\* the deleted type's own id included.
C30_DeletedLabelUnused == Deleted => ~UsedBy(rows, CalledLabel)

\* C30, what the storage does: the contacts of the deleted type carry the
\* label of the type reassignToId names, which is the deleted label again
\* when that type is the deleted one or has the same label.
C30_UnusedUnlessSameLabel ==
  (Deleted /\ UsedBy(rows, CalledLabel)) =>
     /\ TypeAt(contactTypes, call.other) # 0
     /\ ToLowerCase(contactTypes[TypeAt(contactTypes, call.other)].label) = ToLowerCase(CalledLabel)

\* A type in use was deleted with itself as the replacement: its contacts
\* still carry its label.
C30_Witness ==
  /\ Deleted
  /\ call.other = call.id
  /\ UsedBy(rows, CalledLabel)

(***************************************************************************)
(* Properties of searches by email, eviction and normalization             *)
(***************************************************************************)

\* An address of at least 3 characters with an '@' in it.
IsAddress(email) ==
  /\ email # Null
  /\ Len(email) >= 3
  /\ \E k \in 1..Len(email) : email[k] = "@"

\* The records of the last call whose whole email address was the query.
SearchedByEmail ==
  IF RankCall /\ call.query # Null /\ call.records # NullList
  THEN { i \in 1..Len(call.records) :
           IsAddress(call.records[i].email) /\ call.query = call.records[i].email }
  ELSE { }

Returns(contact) == \E k \in 1..Len(call.out) : call.out[k] = contact

\* C22: for every record whose email is an address of at least 3 characters
\* containing '@', filterAndRank(records, record.email) includes the record.
C22_EmailFindsItsRecord ==
  \A i \in SearchedByEmail : Returns(call.records[i])

\* The tokens of the last query that contain an '@'.
AtTokens ==
  { t \in { CallTokens[k] : k \in 1..Len(CallTokens) } : \E k \in 1..Len(t) : t[k] = "@" }

\* The token occurs in the name or in a word of the company.
InNameOrCompany(token, contact) ==
  \/ Includes(normalizeText(contact.name), token)
  \/ \E k \in 1..Len(indexOf[contact].companyWords) : Includes(indexOf[contact].companyWords[k], token)

\* C22, what the engine does: the query is cut at '.', '-', '_' and spaces
\* only, so one token spans the '@', while the index keeps the two sides of
\* the '@' apart; the record is returned only if that token occurs in its
\* name or company.
C22_EmailFoundOnlyByNameOrCompany ==
  \A i \in SearchedByEmail :
     Returns(call.records[i]) =>
        \A t \in AtTokens : InNameOrCompany(t, call.records[i])

\* A search for the whole email address of a record did not return it.
C22_Witness ==
  \E i \in SearchedByEmail :
     /\ ~Returns(call.records[i])
     /\ AtTokens # { }
     /\ call.path = "ranked"

\* The ids looked up since the cache was last cleared.
KeptIds == { id \in DOMAIN seen : ~seen[id].cleared }

\* The entry last stored for the record of this id is in the cache.
EntryPresent(id) == getCacheKey(seen[id].contact) \in CacheKeys(indexCache)

\* C23: getMemoizedIndex(r) never removes the entry of a record with another
\* id, ids being opaque strings that may contain ':': after any interleaving
\* of calls the entry last stored for each record is present unless
\* clearIndexCache was called.
C23_OtherEntriesKept == \A id \in KeptIds : EntryPresent(id)

\* C23, what the cache does: the entry of a record is removed by a miss on a
\* record whose id, followed by ':', begins its own id.
C23_KeptUnlessIdIsPrefix ==
  \A id \in KeptIds :
     ~EntryPresent(id) =>
        \E other \in KeptIds \ { id } : StartsWith(id, other \o << ":" >>)

\* The entry of record u1:x is gone after a miss on record u1.
C23_Witness ==
  /\ call.op = "getMemoizedIndex"
  /\ ~call.hit
  /\ \E id \in KeptIds :
        /\ id # call.contact.id
        /\ StartsWith(id, call.contact.id \o << ":" >>)
        /\ getCacheKey(seen[id].contact) \in { call.before[k].key : k \in 1..Len(call.before) }
        /\ ~EntryPresent(id)

\* No space at either end of str and no two spaces in a row.
Canonical(str) ==
  /\ str # << >> => ~IsSpace(str[1]) /\ ~IsSpace(str[Len(str)])
  /\ \A k \in 1..(Len(str) - 1) : ~(IsSpace(str[k]) /\ IsSpace(str[k + 1]))

\* C24: normalizeText(normalizeText(s)) = normalizeText(s) for every string
\* s, and the result has no leading or trailing whitespace and no run of two
\* or more whitespace characters, also when s has stripped characters
\* between or next to spaces.
C24_NormalizeIsCanonical ==
  call.op = "normalizeText" => (call.again = call.out /\ Canonical(call.out))

\* Every character of str is one normalizeText keeps.
NothingToStrip(str) == str = Null \/ \A k \in 1..Len(str) : KeptChar(str[k])

\* C24, what the normalizer does: it trims and collapses before it strips,
\* so the claim holds for strings with nothing to strip; for the others the
\* spaces around a stripped character stay, and it is the second pass whose
\* result is canonical and which a third pass leaves as it is.
C24_CanonicalOnSecondPass ==
  call.op = "normalizeText" =>
     /\ NothingToStrip(call.str) => (call.again = call.out /\ Canonical(call.out))
     /\ Canonical(call.again)
     /\ call.third = call.again
     /\ NothingToStrip(call.out)

\* normalizeText left two spaces in a row where it stripped a character,
\* and its second pass gave another string.
C24_Witness ==
  /\ call.op = "normalizeText"
  /\ ~Canonical(call.out)
  /\ call.again # call.out

\* The return statement filterAndRank takes on the table's rows and
\* debounced query.
TablePath == filterAndRank(rows, table.debouncedSearchQuery, indexCache).path

\* C25: the tables treat the search as active, and so skip the default sort
\* on the name, only if filterAndRank filtered and ranked for that query
\* rather than returning the rows unchanged.
C25_ActiveOnlyIfRanked == SearchActive => TablePath = "ranked"

\* C25, what the tables do: their test counts the characters of the trimmed
\* query, inner spaces included, where the gate of filterAndRank counts the
\* non-space ones. A ranked query is always active; an active query is
\* stopped by the gate when it has 3 characters or more with spaces in it
\* but fewer than 3 without, and fewer than 3 digits.
C25_ActiveCountsInnerSpaces ==
  table.component # "none" =>
     /\ TablePath = "ranked" => SearchActive
     /\ (SearchActive /\ TablePath = "gate") =>
           /\ Len(Trim(table.debouncedSearchQuery)) >= 3
           /\ Len(RemoveSpaces(table.debouncedSearchQuery)) < 3
           /\ CountDigits(table.debouncedSearchQuery) < 3

\* The global table, unsorted, treats a query as active that the gate
\* stopped: it displays the rows as stored, not sorted on the name.
C25_Witness ==
  /\ SearchActive
  /\ TablePath = "gate"
  /\ table.component = "GlobalTable"
  /\ table.sort = NullSort
  /\ table.columnFilters = { }
  /\ table.shown = rows
  /\ table.shown # sortRows(rows, By("name", NullSort))

\* Tokens typed after a query.
ExtraTokens == { << "a" >>, << "a", "m" >>, << "5" >>, << "x" >>, << "z", "z" >> }

\* The list filterAndRank returns for the last call's records and query
\* with token typed after it, from the cache the last call started with.
OutWithToken(token) ==
  filterAndRank(call.records, RepeatedQuery(call.query, token), call.before).out

\* C26: adding a token never widens the result: a record classifyMatch
\* accepts for the tokens and one more is accepted for the tokens alone,
\* and the records filterAndRank returns for a query with a token added are
\* among those it returns for the query.
C26_AddedTokenNarrows ==
  RankCall =>
    \A token \in ExtraTokens :
       /\ \A r \in 1..Len(call.records) :
             classifyMatch(Append(CallTokens, token), indexOf[call.records[r]]) # NullTier
               => classifyMatch(CallTokens, indexOf[call.records[r]]) # NullTier
       /\ \A k \in 1..Len(OutWithToken(token)) : Returns(OutWithToken(token)[k])

\* C26 witness: a ranked query returned two records or more, and returns
\* some but not all of them with a token added.
C26_Witness ==
  /\ RankedCall
  /\ Len(call.out) >= 2
  /\ \E token \in ExtraTokens :
        /\ tokenize(RepeatedQuery(call.query, token)) = Append(CallTokens, token)
        /\ Len(OutWithToken(token)) >= 1
        /\ Len(OutWithToken(token)) < Len(call.out)

\* Some token satisfies field's condition at tier in index.
SatisfiedBySome(field, tokens, index, tier) ==
  \E t \in 1..Len(tokens) : Satisfies(field, tokens[t], index, tier)

\* C27: for a non-empty token list that classifyMatch accepts at a tier,
\* bestFieldForTie at that tier returns, under either intent, a field whose
\* condition some token satisfies: after a classification filterAndRank
\* never records the fallback.
C27_NoFallbackWhenClassified ==
  /\ (call.op = "bestFieldForTie" /\ Len(call.tokens) > 0
        /\ classifyMatch(call.tokens, call.index) = call.tier)
       => SatisfiedBySome(call.bestField, call.tokens, call.index, call.tier)
  /\ RankedCall =>
       \A k \in 1..Len(call.results) :
          SatisfiedBySome(call.results[k].bestField, CallTokens,
                          call.results[k].index, call.results[k].tier)

\* C27 witness: two tokens that occur in a record without beginning any of
\* its words, classified tier 2, and the field returned is not name.
C27_Witness ==
  /\ call.op = "bestFieldForTie"
  /\ Len(call.tokens) = 2
  /\ call.tier = 2
  /\ classifyMatch(call.tokens, call.index) = 2
  /\ call.bestField # "name"

\* The lists that hold the tokens of a list in any order.
Permuted(tokens) ==
  LET n == Len(tokens)
      orders == { p \in [ 1..n -> 1..n ] : \A i, j \in 1..n : p[i] = p[j] => i = j }
  IN  { [ i \in 1..n |-> tokens[p[i]] ] : p \in orders }

\* A query of the tokens with a separator between them.
RECURSIVE JoinedBy(_, _)
JoinedBy(tokens, separator) ==
  IF tokens = << >> THEN << >>
  ELSE IF Len(tokens) = 1 THEN Head(tokens)
  ELSE Head(tokens) \o << separator >> \o JoinedBy(Tail(tokens), separator)

\* The queries that hold the tokens of the last call's query in any order,
\* typed with spaces or with hyphens between them.
ReorderedQueries ==
  { JoinedBy(tokens, separator) : tokens \in Permuted(CallTokens), separator \in { " ", "-" } }

\* classifyMatch, bestFieldForTie and numericIntent do not tell the tokens
\* of the last call from the same tokens in another order, for the index of
\* any record of the call.
TokensOrderUnseen ==
  \A tokens \in Permuted(CallTokens) :
     /\ NumericIntent(tokens) = NumericIntent(CallTokens)
     /\ \A r \in 1..Len(call.records) :
           /\ classifyMatch(tokens, indexOf[call.records[r]])
                = classifyMatch(CallTokens, indexOf[call.records[r]])
           /\ \A tier \in { 1, 2 } : \A numericIntent \in BOOLEAN :
                bestFieldForTie(tokens, indexOf[call.records[r]], tier, numericIntent)
                  = bestFieldForTie(CallTokens, indexOf[call.records[r]], tier, numericIntent)

\* filterAndRank returns the list of the last call for query.
SameListFor(query) == filterAndRank(call.records, query, call.before).out = call.out

\* C28 as stated: token order is not observable, in classifyMatch,
\* bestFieldForTie and numericIntent, nor in the ordered list filterAndRank
\* returns for any two queries that hold the same tokens.
C28_OrderUnseenInAnyQuery ==
  RankCall => (TokensOrderUnseen /\ \A query \in ReorderedQueries : SameListFor(query))

\* C28 amended: token order is not observable in classifyMatch,
\* bestFieldForTie and numericIntent, and filterAndRank returns the same
\* ordered list for two queries that hold the same tokens and are on the
\* same side of the minimum-length gate.
C28_OrderUnseenOnOneSideOfTheGate ==
  RankCall =>
    /\ TokensOrderUnseen
    /\ \A query \in ReorderedQueries :
          GateCloses(query) = GateCloses(call.query) => SameListFor(query)

\* C28 witness: a query of two different tokens ranked some of the records
\* and not all, and a query of its tokens exchanged passes the gate and
\* ranks them alike.
C28_Witness ==
  /\ RankedCall
  /\ Len(CallTokens) = 2
  /\ Len(call.out) >= 1
  /\ Len(call.out) < Len(call.records)
  /\ \E query \in ReorderedQueries :
        /\ tokenize(query) = << CallTokens[2], CallTokens[1] >>
        /\ tokenize(query) # CallTokens
        /\ ~GateCloses(query)
        /\ SameListFor(query)

====
